---- MODULE Spec2Model ----
(***************************************************************************)
(* RBAC authorization core of govt-backend: the Role / Permission /        *)
(* RolePermission / UserRole tables (app/models.py), the permission and    *)
(* role checks (app/decorators/rbac_decorators.py), the my-permissions     *)
(* lookup (app/views.py) and the request-pipeline check                    *)
(* (app/middleware/rbac_middleware.py).                                    *)
(***************************************************************************)
EXTENDS Integers, Sequences, FiniteSets, TLC

(***************************************************************************)
(* Bound of the model: the most rows the RolePermission table holds.       *)
(***************************************************************************)
MaxRolePermissions == 4

(***************************************************************************)
(* Universe the inputs are drawn from.                                     *)
(***************************************************************************)
Users == {"u1", "u2"}

\* request.user of a request that carries no identity
AnonymousUser == "AnonymousUser"

\* Users whose UserRole rows and legacy role field are edited.
ManagedUsers == {"u1"}

Codenames == {"view_users", "edit_users", "view_reports"}

\* ROLE_NAME_BY_ID of MePermissionsView.get (the same table is repeated in
\* UserSerializer and sync_user_roles).
ROLE_NAME_BY_ID == [i \in 1..4 |->
    CASE i = 1 -> "Chief Officer"
      [] i = 2 -> "Accountant Officer"
      [] i = 3 -> "Auditor"
      [] i = 4 -> "Clerk"]

RoleNames == {ROLE_NAME_BY_ID[i] : i \in DOMAIN ROLE_NAME_BY_ID}

\* Names of the Role rows that are created.
ManagedRoles == {"Auditor", "Clerk"}

\* User.role is a PositiveSmallIntegerField; 0 stands for a value outside
\* the ROLE_CHOICES 1..4.
LegacyRoleValues == {0} \cup DOMAIN ROLE_NAME_BY_ID

(***************************************************************************)
(* The data store.                                                         *)
(*   permissions : codenames that have a Permission row (codename unique)  *)
(*   roles       : Role rows, name |-> is_active (name unique)             *)
(*   rolePerms   : RolePermission rows <<role, codename>> (unique pair)    *)
(*   userRoles   : UserRole rows, <<user, role>> |-> is_active             *)
(*   userRole    : the legacy integer User.role of every user              *)
(* The request being answered.                                             *)
(*   endpoint    : the handler or decorator it reached, with the           *)
(*                 decorator's arguments                                   *)
(*   incoming    : the request: its user, path and method                  *)
(*   response    : what was answered                                       *)
(***************************************************************************)
VARIABLES permissions, roles, rolePerms, userRoles, userRole,
          endpoint, incoming, response

dbVars == <<permissions, roles, rolePerms, userRoles, userRole>>

reqVars == <<endpoint, incoming, response>>

vars == <<permissions, roles, rolePerms, userRoles, userRole,
          endpoint, incoming, response>>

(***************************************************************************)
(* Queries of the checks.                                                  *)
(***************************************************************************)
\* UserRole.objects.filter(user=user, is_active=True): the roles of the rows
ActiveUserRoles(user) ==
    {r \in RoleNames : <<user, r>> \in DOMAIN userRoles /\ userRoles[<<user, r>>]}

\* RolePermission.objects.filter(role=role, permission=permission).exists()
RolePermissionExists(role, codename) == <<role, codename>> \in rolePerms

\* Permission.objects.get(codename=...): the row, or Permission.DoesNotExist
Permission_get(codename) ==
    IF codename \in permissions THEN "ok" ELSE "DoesNotExist"

\* The value a call returns, or the exception it raises.
Return(v) == [exc |-> "none", ret |-> v]
Raise(e) == [exc |-> e, ret |-> FALSE]

\* for user_role in user_roles: if RolePermission...exists(): return True
RECURSIVE AnyRoleGrants(_, _)
AnyRoleGrants(rs, codename) ==
    IF rs = {} THEN FALSE
    ELSE LET r == CHOOSE x \in rs : TRUE IN
         IF RolePermissionExists(r, codename) THEN TRUE
         ELSE AnyRoleGrants(rs \ {r}, codename)

\* _user_has_permission without its except clause
UserHasPermissionUncaught(user, permission_codename) ==
    IF Permission_get(permission_codename) = "DoesNotExist"
    THEN Raise("DoesNotExist")
    ELSE Return(AnyRoleGrants(ActiveUserRoles(user), permission_codename))

\* _user_has_permission reading every UserRole row of the user, active or not
UserHasPermissionAnyRow(user, permission_codename) ==
    IF Permission_get(permission_codename) = "DoesNotExist"
    THEN Return(FALSE)
    ELSE Return(AnyRoleGrants({r \in RoleNames : <<user, r>> \in DOMAIN userRoles},
                              permission_codename))

_user_has_permission(user, permission_codename) ==
    IF Permission_get(permission_codename) = "DoesNotExist"
    THEN Return(FALSE)
    ELSE Return(AnyRoleGrants(ActiveUserRoles(user), permission_codename))

\* _user_has_role falling back to the legacy role field
UserHasRoleLegacy(user, role_name) ==
    \/ role_name \in ActiveUserRoles(user)
    \/ /\ userRole[user] \in DOMAIN ROLE_NAME_BY_ID
       /\ ROLE_NAME_BY_ID[userRole[user]] = role_name

_user_has_role(user, role_name) ==
    \E k \in DOMAIN userRoles :
        k[1] = user /\ k[2] = role_name /\ userRoles[k]

(***************************************************************************)
(* sorted(): Python orders str by code point; every codename is made of    *)
(* lower-case letters and '_' (which sorts before the letters).            *)
(***************************************************************************)
Alphabet == "_abcdefghijklmnopqrstuvwxyz"

CharRank(ch) == CHOOSE i \in 1..Len(Alphabet) : SubSeq(Alphabet, i, i) = ch

RECURSIVE StrLessFrom(_, _, _)
StrLessFrom(a, b, i) ==
    IF i > Len(b) THEN FALSE
    ELSE IF i > Len(a) THEN TRUE
    ELSE LET x == CharRank(SubSeq(a, i, i))
             y == CharRank(SubSeq(b, i, i))
         IN  IF x # y THEN x < y ELSE StrLessFrom(a, b, i + 1)

StrLess(a, b) == StrLessFrom(a, b, 1)

RECURSIVE sorted(_)
sorted(S) ==
    IF S = {} THEN <<>>
    ELSE LET m == CHOOSE x \in S : \A y \in S \ {x} : StrLess(x, y)
         IN  <<m>> \o sorted(S \ {m})

(***************************************************************************)
(* Requests and responses.                                                 *)
(***************************************************************************)
\* request.user.is_authenticated
is_authenticated(request) == request.user # AnonymousUser

\* str.startswith
StartsWith(s, prefix) ==
    /\ Len(s) >= Len(prefix)
    /\ SubSeq(s, 1, Len(prefix)) = prefix

\* separator.join(items)
RECURSIVE Join(_, _)
Join(items, separator) ==
    IF Len(items) = 0 THEN ""
    ELSE IF Len(items) = 1 THEN items[1]
    ELSE items[1] \o separator \o Join(Tail(items), separator)

NoResponse ==
    [status |-> 0, error |-> "", message |-> "", redirect |-> "", flash |-> "",
     permissions |-> <<>>, handlerCalls |-> 0]

\* JsonResponse({'error': ..., 'message': ...}, status=...)
JsonResponse(error, message, status) ==
    [NoResponse EXCEPT !.status = status, !.error = error, !.message = message]

\* messages.error(request, text); return redirect(route)
RedirectWithMessage(route, text) ==
    [NoResponse EXCEPT !.status = 302, !.redirect = route, !.flash = text]

\* an exception that leaves the view: Django answers 500
ServerError(exc) ==
    [NoResponse EXCEPT !.status = 500, !.error = exc]

\* view_func(request, *args, **kwargs): the wrapped handler runs once
view_func(request) ==
    [NoResponse EXCEPT !.status = 200, !.handlerCalls = 1]

\* the branch every guard takes for a request without identity
AuthenticationRequired(request) ==
    IF StartsWith(request.path, "/api/")
    THEN JsonResponse("Authentication required",
                      "Please login to access this resource.", 401)
    ELSE RedirectWithMessage("login", "Please login to access this resource.")

\* the denial branch telling an API request by '/api/' anywhere in the path
AccessDeniedAnywhere(request, message) ==
    IF \E i \in 1..Len(request.path) :
            i + 4 <= Len(request.path) /\ SubSeq(request.path, i, i + 4) = "/api/"
    THEN JsonResponse("Access Denied", message, 403)
    ELSE RedirectWithMessage("access_denied",
                             "You do not have permission to access this resource.")

\* the branch every guard takes when the grant is missing
AccessDenied(request, message) ==
    IF StartsWith(request.path, "/api/")
    THEN JsonResponse("Access Denied", message, 403)
    ELSE RedirectWithMessage("access_denied",
                             "You do not have permission to access this resource.")

(***************************************************************************)
(* MePermissionsView.get                                                   *)
(***************************************************************************)
\* Response({"permissions": codenames})
PermissionsResponse(codenames) ==
    [NoResponse EXCEPT !.status = 200, !.permissions = codenames]

\* {rp.permission.codename for rp in RolePermission...filter(role_id__in=ids)}
CodenamesOfRoles(role_ids) ==
    {rp[2] : rp \in {x \in rolePerms : x[1] \in role_ids}}

\* Python's None (dict.get of a missing key, .first() of an empty queryset)
None == "<None>"

\* Role.objects.filter(name=role_name, is_active=True).first()
ActiveRoleNamed(role_name) ==
    IF role_name \in DOMAIN roles /\ roles[role_name] THEN role_name ELSE None

\* the fallback of lines 54-70: User.role mapped to a Role name
LegacyFallback(user) ==
    LET role_id == userRole[user]
        role_name == IF role_id \in DOMAIN ROLE_NAME_BY_ID
                     THEN ROLE_NAME_BY_ID[role_id] ELSE None
        role_obj == IF role_name # None THEN ActiveRoleNamed(role_name) ELSE None
    IN  IF role_name # None /\ role_obj # None
        THEN PermissionsResponse(sorted(CodenamesOfRoles({role_obj})))
        ELSE PermissionsResponse(<<>>)

\* MePermissionsView.get consulting the legacy role before the assignments
MePermissionsLegacyFirst(request) ==
    IF ~is_authenticated(request) THEN PermissionsResponse(<<>>)
    ELSE IF userRole[request.user] \in DOMAIN ROLE_NAME_BY_ID
            /\ ActiveRoleNamed(ROLE_NAME_BY_ID[userRole[request.user]]) # None
         THEN LegacyFallback(request.user)
         ELSE PermissionsResponse(sorted(CodenamesOfRoles(ActiveUserRoles(request.user))))

\* sorted([rp.permission.codename for rp in perms]) over the rows taken role
\* by role: a codename is listed once per role that grants it
RECURSIVE CodenamesPerGrant(_, _)
CodenamesPerGrant(codenames, role_ids) ==
    IF Len(codenames) = 0 THEN <<>>
    ELSE LET c == Head(codenames)
             n == Cardinality({r \in role_ids : <<r, c>> \in rolePerms})
         IN  [i \in 1..n |-> c] \o CodenamesPerGrant(Tail(codenames), role_ids)

\* MePermissionsView.get building a list instead of a set
MePermissionsNoDedup(request) ==
    IF ~is_authenticated(request) THEN PermissionsResponse(<<>>)
    ELSE LET rs == ActiveUserRoles(request.user) IN
         IF rs # {}
         THEN PermissionsResponse(
                CodenamesPerGrant(sorted(CodenamesOfRoles(rs)), rs))
         ELSE LegacyFallback(request.user)

MePermissionsView_get(request) ==
    IF ~is_authenticated(request) THEN PermissionsResponse(<<>>)
    ELSE LET rs == ActiveUserRoles(request.user) IN
         IF rs # {}
         THEN PermissionsResponse(sorted(CodenamesOfRoles(rs)))
         ELSE LegacyFallback(request.user)

(***************************************************************************)
(* The decorators of rbac_decorators.py.  Each takes the decorator's       *)
(* arguments and the request and gives the response of wrapped_view.       *)
(***************************************************************************)
has_permission(permission_codename, request) ==
    IF ~is_authenticated(request) THEN AuthenticationRequired(request)
    ELSE LET held == _user_has_permission(request.user, permission_codename) IN
         IF held.exc # "none" THEN ServerError(held.exc)
         ELSE IF ~held.ret
         THEN AccessDenied(request,
                "You do not have permission: " \o permission_codename)
         ELSE view_func(request)

\* for permission_codename in permission_codenames: ... has_any = True; break
RECURSIVE HasAnyFrom(_, _, _)
HasAnyFrom(user, permission_codenames, i) ==
    IF i > Len(permission_codenames) THEN Return(FALSE)
    ELSE LET held == _user_has_permission(user, permission_codenames[i]) IN
         IF held.exc # "none" THEN held
         ELSE IF held.ret THEN Return(TRUE)
         ELSE HasAnyFrom(user, permission_codenames, i + 1)

has_any_permission(permission_codenames, request) ==
    IF ~is_authenticated(request) THEN AuthenticationRequired(request)
    ELSE LET has_any == HasAnyFrom(request.user, permission_codenames, 1) IN
         IF has_any.exc # "none" THEN ServerError(has_any.exc)
         ELSE IF ~has_any.ret
         THEN AccessDenied(request,
                "You do not have any of these permissions: "
                    \o Join(permission_codenames, ", "))
         ELSE view_func(request)

\* for permission_codename in permission_codenames: ... missing.append(...)
RECURSIVE MissingFrom(_, _, _, _)
MissingFrom(user, permission_codenames, i, missing_permissions) ==
    IF i > Len(permission_codenames) THEN Return(missing_permissions)
    ELSE LET held == _user_has_permission(user, permission_codenames[i]) IN
         IF held.exc # "none" THEN held
         ELSE MissingFrom(user, permission_codenames, i + 1,
                IF held.ret THEN missing_permissions
                ELSE Append(missing_permissions, permission_codenames[i]))

\* has_all_permissions naming every listed codename in its message
HasAllPermissionsListsAll(permission_codenames, request) ==
    IF ~is_authenticated(request) THEN AuthenticationRequired(request)
    ELSE LET missing == MissingFrom(request.user, permission_codenames, 1, <<>>) IN
         IF missing.exc # "none" THEN ServerError(missing.exc)
         ELSE IF Len(missing.ret) > 0
         THEN AccessDenied(request,
                "You are missing these permissions: "
                    \o Join(permission_codenames, ", "))
         ELSE view_func(request)

has_all_permissions(permission_codenames, request) ==
    IF ~is_authenticated(request) THEN AuthenticationRequired(request)
    ELSE LET missing == MissingFrom(request.user, permission_codenames, 1, <<>>) IN
         IF missing.exc # "none" THEN ServerError(missing.exc)
         ELSE IF Len(missing.ret) > 0
         THEN AccessDenied(request,
                "You are missing these permissions: "
                    \o Join(missing.ret, ", "))
         ELSE view_func(request)

role_required(role_name, request) ==
    IF ~is_authenticated(request) THEN AuthenticationRequired(request)
    ELSE IF ~_user_has_role(request.user, role_name)
    THEN AccessDenied(request,
            "You do not have the required role: " \o role_name)
    ELSE view_func(request)

\* for role_name in role_names: ... has_any = True; break
RECURSIVE HasAnyRoleFrom(_, _, _)
HasAnyRoleFrom(user, role_names, i) ==
    IF i > Len(role_names) THEN FALSE
    ELSE IF _user_has_role(user, role_names[i]) THEN TRUE
    ELSE HasAnyRoleFrom(user, role_names, i + 1)

\* any_role_required running the handler and then the denial branch
AnyRoleRequiredRunsHandler(role_names, request) ==
    IF ~is_authenticated(request) THEN AuthenticationRequired(request)
    ELSE IF ~HasAnyRoleFrom(request.user, role_names, 1)
    THEN [AccessDenied(request,
            "You do not have any of these roles: " \o Join(role_names, ", "))
          EXCEPT !.handlerCalls = 1]
    ELSE view_func(request)

any_role_required(role_names, request) ==
    IF ~is_authenticated(request) THEN AuthenticationRequired(request)
    ELSE IF ~HasAnyRoleFrom(request.user, role_names, 1)
    THEN AccessDenied(request,
            "You do not have any of these roles: " \o Join(role_names, ", "))
    ELSE view_func(request)

(***************************************************************************)
(* The request-pipeline check of rbac_middleware.py.                       *)
(***************************************************************************)
CrudPermissions(resource) ==
    [m \in {"GET", "POST", "PUT", "DELETE", "PATCH"} |->
        CASE m = "GET" -> "view_" \o resource
          [] m = "POST" -> "add_" \o resource
          [] m = "DELETE" -> "delete_" \o resource
          [] OTHER -> "edit_" \o resource]

\* self.permission_map, in the order the dict is written
permission_map == <<
    [pattern |-> "/api/users/", permissions |-> CrudPermissions("users")],
    [pattern |-> "/api/transactions/", permissions |-> CrudPermissions("transactions")],
    [pattern |-> "/api/bank-accounts/", permissions |-> CrudPermissions("banks")],
    [pattern |-> "/api/contractors/", permissions |-> CrudPermissions("contractors")],
    [pattern |-> "/api/settings/",
     permissions |-> [m \in {"GET", "POST", "PUT", "DELETE", "PATCH"} |->
                        IF m = "GET" THEN "view_settings" ELSE "edit_settings"]],
    [pattern |-> "/api/settings/image-path/", permissions |-> [m \in {"GET"} |-> None]],
    [pattern |-> "/api/reports/", permissions |-> [m \in {"GET"} |-> "view_reports"]],
    [pattern |-> "/api/backup/", permissions |-> [m \in {"POST"} |-> "backup_data"]] >>

\* dict.get(key)
DictGet(d, key) == IF key \in DOMAIN d THEN d[key] ELSE None

\* for pattern, permissions in self.permission_map.items(): first prefix hit
RECURSIVE FirstPrefixFrom(_, _, _)
FirstPrefixFrom(path, method, i) ==
    IF i > Len(permission_map) THEN None
    ELSE IF StartsWith(path, permission_map[i].pattern)
    THEN DictGet(permission_map[i].permissions, method)
    ELSE FirstPrefixFrom(path, method, i + 1)

_get_required_permission(path, method) ==
    IF \E i \in 1..Len(permission_map) : permission_map[i].pattern = path
    THEN LET i == CHOOSE j \in 1..Len(permission_map) :
                      permission_map[j].pattern = path
         IN  DictGet(permission_map[i].permissions, method)
    ELSE FirstPrefixFrom(path, method, 1)

_role_has_permission(role, permission_codename) ==
    IF Permission_get(permission_codename) = "DoesNotExist"
    THEN Return(FALSE)
    ELSE Return(RolePermissionExists(role, permission_codename))

\* for user_role in user_roles: if self._role_has_permission(...): return True
RECURSIVE AnyRoleHasPermission(_, _)
AnyRoleHasPermission(rs, permission_codename) ==
    IF rs = {} THEN Return(FALSE)
    ELSE LET r == CHOOSE x \in rs : TRUE
             has == _role_has_permission(r, permission_codename)
         IN  IF has.exc # "none" THEN has
             ELSE IF has.ret THEN Return(TRUE)
             ELSE AnyRoleHasPermission(rs \ {r}, permission_codename)

\* the check looking for the user's roles before it looks at the table
CheckApiPermissionRolesFirst(req) ==
    LET required_permission == _get_required_permission(req.path, req.method)
        user_roles == ActiveUserRoles(req.user)
    IN  IF user_roles = {} THEN Return(FALSE)
        ELSE IF required_permission = None THEN Return(TRUE)
        ELSE AnyRoleHasPermission(user_roles, required_permission)

_check_api_permission(req) ==
    LET required_permission == _get_required_permission(req.path, req.method)
        user_roles == ActiveUserRoles(req.user)
    IN  IF required_permission = None THEN Return(TRUE)
        ELSE IF user_roles = {} THEN Return(FALSE)
        ELSE AnyRoleHasPermission(user_roles, required_permission)

(***************************************************************************)
(* The state machine.                                                      *)
(***************************************************************************)
NoEndpoint == [kind |-> "none", args |-> <<>>]

NoRequest == [user |-> AnonymousUser, path |-> "", method |-> ""]

\* No request is being answered.
Idle == endpoint = NoEndpoint

\* A fresh database: the tables are empty, every user has the default
\* legacy role 4 (Clerk).
Init ==
    /\ permissions = {}
    /\ roles = <<>>
    /\ rolePerms = {}
    /\ userRoles = <<>>
    /\ userRole = [u \in Users |-> 4]
    /\ endpoint = NoEndpoint
    /\ incoming = NoRequest
    /\ response = NoResponse

\* The store once the two managed roles and the user-management permissions
\* are in place; view_reports has no Permission row.
GuardInit ==
    /\ permissions = {"view_users", "edit_users"}
    /\ roles = [r \in ManagedRoles |-> TRUE]
    /\ rolePerms = {}
    /\ userRoles = <<>>
    /\ userRole = [u \in Users |-> 4]
    /\ endpoint = NoEndpoint
    /\ incoming = NoRequest
    /\ response = NoResponse

(***************************************************************************)
(* Row operations on the tables, applied between requests.                 *)
(***************************************************************************)
\* Permission.objects.create(codename=c)
CreatePermission(c) ==
    /\ Idle
    /\ c \notin permissions
    /\ permissions' = permissions \cup {c}
    /\ UNCHANGED <<roles, rolePerms, userRoles, userRole, reqVars>>

\* Role.objects.create(name=r, is_active=active)
CreateRole(r, active) ==
    /\ Idle
    /\ r \notin DOMAIN roles
    /\ roles' = [x \in DOMAIN roles \cup {r} |-> IF x = r THEN active ELSE roles[x]]
    /\ UNCHANGED <<permissions, rolePerms, userRoles, userRole, reqVars>>

\* role.is_active = active; role.save()
SetRoleActive(r, active) ==
    /\ Idle
    /\ r \in DOMAIN roles
    /\ roles[r] # active
    /\ roles' = [roles EXCEPT ![r] = active]
    /\ UNCHANGED <<permissions, rolePerms, userRoles, userRole, reqVars>>

\* RolePermission.objects.create(role=r, permission=c)
GrantPermission(r, c) ==
    /\ Idle
    /\ r \in DOMAIN roles
    /\ c \in permissions
    /\ <<r, c>> \notin rolePerms
    /\ Cardinality(rolePerms) < MaxRolePermissions
    /\ rolePerms' = rolePerms \cup {<<r, c>>}
    /\ UNCHANGED <<permissions, roles, userRoles, userRole, reqVars>>

\* rp.delete()
RevokePermission(r, c) ==
    /\ Idle
    /\ <<r, c>> \in rolePerms
    /\ rolePerms' = rolePerms \ {<<r, c>>}
    /\ UNCHANGED <<permissions, roles, userRoles, userRole, reqVars>>

\* UserRole.objects.create(user=u, role=r, is_active=active)
AssignRole(u, r, active) ==
    /\ Idle
    /\ r \in DOMAIN roles
    /\ <<u, r>> \notin DOMAIN userRoles
    /\ userRoles' = [k \in DOMAIN userRoles \cup {<<u, r>>} |->
                        IF k = <<u, r>> THEN active ELSE userRoles[k]]
    /\ UNCHANGED <<permissions, roles, rolePerms, userRole, reqVars>>

\* ur.is_active = active; ur.save(update_fields=['is_active'])
SetUserRoleActive(u, r, active) ==
    /\ Idle
    /\ <<u, r>> \in DOMAIN userRoles
    /\ userRoles[<<u, r>>] # active
    /\ userRoles' = [userRoles EXCEPT ![<<u, r>>] = active]
    /\ UNCHANGED <<permissions, roles, rolePerms, userRole, reqVars>>

\* user.role = v; user.save()
SetLegacyRole(u, v) ==
    /\ Idle
    /\ userRole[u] # v
    /\ userRole' = [userRole EXCEPT ![u] = v]
    /\ UNCHANGED <<permissions, roles, rolePerms, userRoles, reqVars>>

(***************************************************************************)
(* Requests.  A request is answered in one step; the response is then      *)
(* sent and the next request or row operation follows.                     *)
(***************************************************************************)
Paths == {"/api/users/", "/dashboard/", "/v2/api/users/"}

\* role names given to role_required
RoleArgs == RoleNames \cup {"clerk"}

PermissionLists ==
    { <<>>,
      <<"view_users">>,
      <<"view_users", "edit_users">>,
      <<"edit_users", "view_users">>,
      <<"view_users", "view_users">>,
      <<"edit_users", "view_reports", "view_users">> }

RoleLists ==
    { <<>>,
      <<"Auditor">>,
      <<"Auditor", "Clerk">>,
      <<"Chief Officer", "Clerk">> }

\* the HttpRequest of a GET by user u to path
Get(u, path) == [user |-> u, path |-> path, method |-> "GET"]

\* GET /api/me/permissions/ by an authenticated user
MePermissions(u) ==
    /\ Idle
    /\ endpoint' = [kind |-> "me_permissions", args |-> <<>>]
    /\ incoming' = Get(u, "/api/me/permissions/")
    /\ response' = MePermissionsView_get(Get(u, "/api/me/permissions/"))
    /\ UNCHANGED dbVars

\* a view wrapped by @has_permission(c)
GuardedByHasPermission(u, path, c) ==
    /\ Idle
    /\ endpoint' = [kind |-> "has_permission", args |-> <<c>>]
    /\ incoming' = Get(u, path)
    /\ response' = has_permission(c, Get(u, path))
    /\ UNCHANGED dbVars

\* a view wrapped by @has_any_permission(*cs)
GuardedByHasAnyPermission(u, path, cs) ==
    /\ Idle
    /\ endpoint' = [kind |-> "has_any_permission", args |-> cs]
    /\ incoming' = Get(u, path)
    /\ response' = has_any_permission(cs, Get(u, path))
    /\ UNCHANGED dbVars

\* a view wrapped by @has_all_permissions(*cs)
GuardedByHasAllPermissions(u, path, cs) ==
    /\ Idle
    /\ endpoint' = [kind |-> "has_all_permissions", args |-> cs]
    /\ incoming' = Get(u, path)
    /\ response' = has_all_permissions(cs, Get(u, path))
    /\ UNCHANGED dbVars

\* a view wrapped by @role_required(r)
GuardedByRoleRequired(u, path, r) ==
    /\ Idle
    /\ endpoint' = [kind |-> "role_required", args |-> <<r>>]
    /\ incoming' = Get(u, path)
    /\ response' = role_required(r, Get(u, path))
    /\ UNCHANGED dbVars

\* a view wrapped by @any_role_required(*rs)
GuardedByAnyRoleRequired(u, path, rs) ==
    /\ Idle
    /\ endpoint' = [kind |-> "any_role_required", args |-> rs]
    /\ incoming' = Get(u, path)
    /\ response' = any_role_required(rs, Get(u, path))
    /\ UNCHANGED dbVars

\* The response leaves; nothing of the request is kept.
SendResponse ==
    /\ ~Idle
    /\ endpoint' = NoEndpoint
    /\ incoming' = NoRequest
    /\ response' = NoResponse
    /\ UNCHANGED dbVars

Callers == Users \cup {AnonymousUser}

(***************************************************************************)
(* Spec: the tables under every row operation, and the my-permissions      *)
(* lookup.                                                                 *)
(***************************************************************************)
Next ==
    \/ \E c \in Codenames : CreatePermission(c)
    \/ \E r \in ManagedRoles, a \in BOOLEAN : CreateRole(r, a)
    \/ \E r \in ManagedRoles, a \in BOOLEAN : SetRoleActive(r, a)
    \/ \E r \in ManagedRoles, c \in Codenames : GrantPermission(r, c)
    \/ \E r \in ManagedRoles, c \in Codenames : RevokePermission(r, c)
    \/ \E u \in ManagedUsers, r \in ManagedRoles, a \in BOOLEAN : AssignRole(u, r, a)
    \/ \E u \in ManagedUsers, r \in ManagedRoles, a \in BOOLEAN : SetUserRoleActive(u, r, a)
    \/ \E u \in ManagedUsers, v \in LegacyRoleValues : SetLegacyRole(u, v)
    \/ \E u \in Users : MePermissions(u)
    \/ SendResponse

Spec == Init /\ [][Next]_vars

(***************************************************************************)
(* GuardSpec: decorated endpoints, called while grants and assignments     *)
(* change.                                                                 *)
(***************************************************************************)
GuardNext ==
    \/ \E r \in ManagedRoles, c \in Codenames : GrantPermission(r, c)
    \/ \E r \in ManagedRoles, c \in Codenames : RevokePermission(r, c)
    \/ \E u \in ManagedUsers, r \in ManagedRoles, a \in BOOLEAN : AssignRole(u, r, a)
    \/ \E u \in ManagedUsers, r \in ManagedRoles, a \in BOOLEAN : SetUserRoleActive(u, r, a)
    \/ \E u \in ManagedUsers, v \in LegacyRoleValues : SetLegacyRole(u, v)
    \/ \E u \in Callers, p \in Paths, c \in Codenames : GuardedByHasPermission(u, p, c)
    \/ \E u \in Callers, p \in Paths, cs \in PermissionLists :
            GuardedByHasAnyPermission(u, p, cs)
    \/ \E u \in Callers, p \in Paths, cs \in PermissionLists :
            GuardedByHasAllPermissions(u, p, cs)
    \/ \E u \in Callers, p \in Paths, r \in RoleArgs : GuardedByRoleRequired(u, p, r)
    \/ \E u \in Callers, p \in Paths, rs \in RoleLists : GuardedByAnyRoleRequired(u, p, rs)
    \/ SendResponse

GuardSpec == GuardInit /\ [][GuardNext]_vars

TypeOK ==
    /\ permissions \subseteq Codenames
    /\ DOMAIN roles \subseteq RoleNames
    /\ \A r \in DOMAIN roles : roles[r] \in BOOLEAN
    /\ rolePerms \subseteq (DOMAIN roles) \X permissions
    /\ DOMAIN userRoles \subseteq Users \X (DOMAIN roles)
    /\ \A k \in DOMAIN userRoles : userRoles[k] \in BOOLEAN
    /\ userRole \in [Users -> LegacyRoleValues]
    /\ incoming.user \in Callers
    /\ response.handlerCalls \in 0..1
    /\ response.status \in {0, 200, 302, 401, 403}

(***************************************************************************)
(* What the claims speak of, stated on the rows themselves.                *)
(***************************************************************************)
\* an active UserRole row links user u to role r
ActiveLink(u, r) == <<u, r>> \in DOMAIN userRoles /\ userRoles[<<u, r>>]

\* the roles user u is linked to by an active UserRole row
LinkedRoles(u) == {r \in RoleNames : ActiveLink(u, r)}

\* the codenames granted by RolePermission rows to a role of rs
GrantedBy(rs) == {c \in Codenames : \E r \in rs : <<r, c>> \in rolePerms}

\* the elements of a list
Elems(seq) == {seq[i] : i \in 1..Len(seq)}

NoDuplicates(seq) == \A i, j \in 1..Len(seq) : i # j => seq[i] # seq[j]

(***************************************************************************)
(* C1: for an authenticated user with at least one active UserRole, the    *)
(* list my-permissions returns holds exactly the codenames granted to a    *)
(* role of an active UserRole of the user, each of them once.              *)
(***************************************************************************)
C1_UnionOfActiveRoles ==
    (endpoint.kind = "me_permissions" /\ LinkedRoles(incoming.user) # {}) =>
        /\ response.status = 200
        /\ Elems(response.permissions) = GrantedBy(LinkedRoles(incoming.user))
        /\ NoDuplicates(response.permissions)

\* two active roles granting {A, B} and {B, C} gave the three of A, B, C
C1_Witness ==
    /\ endpoint.kind = "me_permissions"
    /\ \E r1, r2 \in LinkedRoles(incoming.user) : \E a, b, c \in Codenames :
        /\ r1 # r2 /\ Cardinality({a, b, c}) = 3
        /\ GrantedBy({r1}) = {a, b}
        /\ GrantedBy({r2}) = {b, c}
        /\ Elems(response.permissions) = {a, b, c}
        /\ Len(response.permissions) = 3

(***************************************************************************)
(* C2: a step that adds an active UserRole (u, r), where r grants c,       *)
(* leaves _user_has_permission(u, c) true; a step that sets that row       *)
(* inactive, where no other active role of u grants c, leaves it false.    *)
(***************************************************************************)
C2_GrantThenDeactivate ==
    [][\A u \in Users, r \in RoleNames, c \in Codenames :
        /\ (/\ ~ActiveLink(u, r)
            /\ ActiveLink(u, r)'
            /\ <<r, c>> \in rolePerms')
           => _user_has_permission(u, c)' = Return(TRUE)
        /\ (/\ ActiveLink(u, r)
            /\ (<<u, r>> \in DOMAIN userRoles /\ ~userRoles[<<u, r>>])'
            /\ <<r, c>> \in rolePerms'
            /\ (c \notin GrantedBy(LinkedRoles(u)))')
           => _user_has_permission(u, c)' = Return(FALSE)]_vars

\* a UserRole row of a role that grants c is inactive and c is not held
C2_Witness ==
    \E u \in Users, r \in RoleNames, c \in Codenames :
        /\ <<u, r>> \in DOMAIN userRoles /\ ~userRoles[<<u, r>>]
        /\ <<r, c>> \in rolePerms
        /\ LinkedRoles(u) # {}
        /\ _user_has_permission(u, c) = Return(FALSE)

(***************************************************************************)
(* C3: for a user with no active UserRole and legacy role r in 1..4,       *)
(* my-permissions returns exactly the codenames granted to the active      *)
(* Role named ROLE_NAME_BY_ID[r] (none when no such active Role exists);   *)
(* with at least one active UserRole the result is the codenames of the    *)
(* explicit assignments, whatever the legacy role would give.              *)
(***************************************************************************)
C3_FallbackExclusive ==
    endpoint.kind = "me_permissions" =>
        LET u == incoming.user
            r == userRole[u]
            got == Elems(response.permissions)
        IN  /\ (LinkedRoles(u) = {} /\ r \in 1..4) =>
                IF ROLE_NAME_BY_ID[r] \in DOMAIN roles /\ roles[ROLE_NAME_BY_ID[r]]
                THEN got = GrantedBy({ROLE_NAME_BY_ID[r]})
                ELSE got = {}
            /\ LinkedRoles(u) # {} => got = GrantedBy(LinkedRoles(u))

\* the fallback answered with the permissions of the legacy role
C3_Witness ==
    /\ endpoint.kind = "me_permissions"
    /\ LinkedRoles(incoming.user) = {}
    /\ userRole[incoming.user] = 3
    /\ "Auditor" \in DOMAIN roles /\ roles["Auditor"]
    /\ Cardinality(GrantedBy({"Auditor"})) >= 2
    /\ Elems(response.permissions) = GrantedBy({"Auditor"})

\* an explicit assignment answered although the legacy role gives another set
C3_WitnessExplicit ==
    /\ endpoint.kind = "me_permissions"
    /\ LinkedRoles(incoming.user) = {"Clerk"}
    /\ userRole[incoming.user] = 3
    /\ "Auditor" \in DOMAIN roles /\ roles["Auditor"]
    /\ GrantedBy({"Auditor"}) # GrantedBy({"Clerk"})
    /\ GrantedBy({"Auditor"}) # {}
    /\ Elems(response.permissions) = GrantedBy({"Clerk"})

(***************************************************************************)
(* C4: a permission granted only by an inactive Role is not held through   *)
(* an active UserRole to it: not by _user_has_permission, not by the       *)
(* middleware check, not in the my-permissions result.                     *)
(***************************************************************************)
C4_InactiveRoleExcluded ==
    \A u \in Users, r \in DOMAIN roles, c \in Codenames :
        (/\ ~roles[r]
         /\ ActiveLink(u, r)
         /\ <<r, c>> \in rolePerms
         /\ \A r2 \in RoleNames : <<r2, c>> \in rolePerms => r2 = r)
        =>
        /\ ~_user_has_permission(u, c).ret
        /\ \A i \in 1..Len(permission_map) :
             \A m \in DOMAIN permission_map[i].permissions :
                LET req == [user |-> u, path |-> permission_map[i].pattern,
                            method |-> m]
                IN  _get_required_permission(req.path, m) = c
                        => ~_check_api_permission(req).ret
        /\ c \notin Elems(MePermissionsView_get(Get(u, "/api/me/permissions/")).permissions)

(***************************************************************************)
(* C5: _user_has_permission(u, c) is true exactly when c is in the list    *)
(* my-permissions returns for u, users without an active UserRole          *)
(* included.                                                               *)
(***************************************************************************)
C5_CheckEqualsResolver ==
    \A u \in Users, c \in Codenames :
        _user_has_permission(u, c).ret
            <=> c \in Elems(MePermissionsView_get(Get(u, "/api/me/permissions/")).permissions)

\* What does hold between the two: they agree for every user with an active
\* UserRole, and without one the check is false whatever the legacy role.
CheckEqualsResolverWithUserRole ==
    \A u \in Users, c \in Codenames :
        LET listed == Elems(MePermissionsView_get(Get(u, "/api/me/permissions/")).permissions)
        IN  /\ LinkedRoles(u) # {} => (_user_has_permission(u, c).ret <=> c \in listed)
            /\ LinkedRoles(u) = {} => ~_user_has_permission(u, c).ret

(***************************************************************************)
(* What each decorator asks of the user, stated on the rows.               *)
(***************************************************************************)
Guards == {"has_permission", "has_any_permission", "has_all_permissions",
           "role_required", "any_role_required"}

\* user u holds codename c through an active UserRole
Holds(u, c) == \E r \in RoleNames : ActiveLink(u, r) /\ <<r, c>> \in rolePerms

GuardCondition(kind, args, u) ==
    CASE kind = "has_permission" -> Holds(u, args[1])
      [] kind = "has_any_permission" -> \E i \in 1..Len(args) : Holds(u, args[i])
      [] kind = "has_all_permissions" -> \A i \in 1..Len(args) : Holds(u, args[i])
      [] kind = "role_required" -> ActiveLink(u, args[1])
      [] kind = "any_role_required" -> \E i \in 1..Len(args) : ActiveLink(u, args[i])
      [] OTHER -> FALSE

\* the answered request is authenticated and its guard's condition fails
Lacking ==
    /\ endpoint.kind \in Guards
    /\ incoming.user # AnonymousUser
    /\ ~GuardCondition(endpoint.kind, endpoint.args, incoming.user)

IsDenial(resp) ==
    /\ resp.handlerCalls = 0
    /\ \/ resp.status = 403 /\ resp.error = "Access Denied"
       \/ resp.status = 302 /\ resp.redirect = "access_denied"

(***************************************************************************)
(* C6: a codename without a Permission row fails closed: for every user    *)
(* and role _user_has_permission and _role_has_permission return False     *)
(* and raise nothing, and has_permission on it (as has_all_permissions on  *)
(* a list holding it, and has_any_permission on a list of such codenames)  *)
(* denies every authenticated caller.                                      *)
(***************************************************************************)
C6_UnknownCodenameDenied ==
    /\ \A c \in Codenames \ permissions :
        /\ \A u \in Users : _user_has_permission(u, c) = Return(FALSE)
        /\ \A r \in RoleNames : _role_has_permission(r, c) = Return(FALSE)
    /\ (/\ incoming.user # AnonymousUser
        /\ \/ /\ endpoint.kind \in {"has_permission", "has_all_permissions"}
              /\ \E i \in 1..Len(endpoint.args) : endpoint.args[i] \notin permissions
           \/ /\ endpoint.kind = "has_any_permission"
              /\ \A i \in 1..Len(endpoint.args) : endpoint.args[i] \notin permissions)
       => IsDenial(response)

\* a user with an active role that has grants was denied on view_reports,
\* which has no Permission row
C6_Witness ==
    /\ endpoint = [kind |-> "has_permission", args |-> <<"view_reports">>]
    /\ "view_reports" \notin permissions
    /\ incoming.user \in Users
    /\ GrantedBy(LinkedRoles(incoming.user)) # {}
    /\ response.status = 403
    /\ response.handlerCalls = 0

(***************************************************************************)
(* C7: _user_has_role(u, name) is true exactly when an active UserRole     *)
(* links u to the Role named name; role_required permits exactly then and  *)
(* any_role_required exactly when it holds for one of its names.  The      *)
(* legacy role field makes no role check pass.                             *)
(***************************************************************************)
C7_RoleChecksStrict ==
    /\ \A u \in Users, name \in RoleArgs :
        _user_has_role(u, name) <=> ActiveLink(u, name)
    /\ (endpoint.kind = "role_required" /\ incoming.user # AnonymousUser) =>
        (response.handlerCalls = 1 <=> ActiveLink(incoming.user, endpoint.args[1]))
    /\ (endpoint.kind = "any_role_required" /\ incoming.user # AnonymousUser) =>
        (response.handlerCalls = 1 <=>
            \E i \in 1..Len(endpoint.args) : ActiveLink(incoming.user, endpoint.args[i]))

\* role_required('Clerk') denied a user whose legacy role is 4 (Clerk) and
\* whose only active UserRole is to another role
C7_Witness ==
    /\ endpoint = [kind |-> "role_required", args |-> <<"Clerk">>]
    /\ incoming.user \in Users
    /\ userRole[incoming.user] = 4
    /\ LinkedRoles(incoming.user) = {"Auditor"}
    /\ response.status = 403
    /\ response.handlerCalls = 0

(***************************************************************************)
(* C8: under each of the five decorators an unauthenticated request is     *)
(* answered before any check: 401 JSON 'Authentication required' when the  *)
(* path starts with '/api/', a redirect to the login page otherwise.  An   *)
(* authenticated request lacking the grant gets 403 JSON 'Access Denied'   *)
(* when the path starts with '/api/', a redirect to the access-denied page *)
(* otherwise.  Only the path prefix decides the shape.                     *)
(***************************************************************************)
C8_RefusalShape ==
    endpoint.kind \in Guards =>
        LET api == StartsWith(incoming.path, "/api/")
        IN  /\ incoming.user = AnonymousUser =>
                /\ response.handlerCalls = 0
                /\ api => /\ response.status = 401
                          /\ response.error = "Authentication required"
                          /\ response.redirect = ""
                /\ ~api => /\ response.status = 302
                           /\ response.redirect = "login"
                           /\ response.error = ""
            /\ Lacking =>
                /\ response.handlerCalls = 0
                /\ api => /\ response.status = 403
                          /\ response.error = "Access Denied"
                          /\ response.redirect = ""
                /\ ~api => /\ response.status = 302
                           /\ response.redirect = "access_denied"
                           /\ response.error = ""

\* an authenticated user lacking the grant was redirected on a path that
\* holds '/api/' but does not start with it
C8_Witness ==
    /\ endpoint.kind = "has_any_permission"
    /\ Lacking
    /\ incoming.path = "/v2/api/users/"
    /\ response.status = 302
    /\ response.redirect = "access_denied"

\* an anonymous request to an API path under a role guard got the 401
C8_WitnessAnonymous ==
    /\ endpoint.kind = "any_role_required"
    /\ incoming.user = AnonymousUser
    /\ incoming.path = "/api/users/"
    /\ response.status = 401

(***************************************************************************)
(* C9: under every decorator the wrapped handler runs exactly once when    *)
(* the request is authenticated and the guard's condition holds, and not   *)
(* at all otherwise; answering a guarded request changes no Role,          *)
(* Permission, RolePermission, UserRole or User row.                       *)
(***************************************************************************)
C9_HandlerIffPermitted ==
    [][(Idle /\ endpoint'.kind \in Guards) =>
            /\ UNCHANGED dbVars
            /\ LET permitted == /\ incoming'.user # AnonymousUser
                                /\ GuardCondition(endpoint'.kind, endpoint'.args,
                                                  incoming'.user)
               IN  /\ permitted => response'.handlerCalls = 1 /\ response'.status = 200
                   /\ ~permitted => response'.handlerCalls = 0 /\ response'.status # 200
      ]_vars

\* any_role_required ran the handler for a user holding the second of the
\* listed roles only
C9_Witness ==
    /\ endpoint = [kind |-> "any_role_required", args |-> <<"Chief Officer", "Clerk">>]
    /\ incoming.user \in Users
    /\ LinkedRoles(incoming.user) = {"Clerk"}
    /\ response.handlerCalls = 1

\* any_role_required refused a user holding none of the listed roles
C9_WitnessRefused ==
    /\ endpoint = [kind |-> "any_role_required", args |-> <<"Auditor", "Clerk">>]
    /\ incoming.user \in Users
    /\ LinkedRoles(incoming.user) = {}
    /\ response.handlerCalls = 0

(***************************************************************************)
(* C10: has_all_permissions permits exactly when the user holds every      *)
(* listed codename, and its 403 on an '/api/' path names the codenames the *)
(* user lacks, and only those, in argument order; has_any_permission       *)
(* permits exactly when the user holds at least one listed codename.       *)
(***************************************************************************)
C10_AllAndAny ==
    incoming.user # AnonymousUser =>
        LET u == incoming.user
            args == endpoint.args
            lacks(c) == ~Holds(u, c)
        IN  /\ endpoint.kind = "has_all_permissions" =>
                /\ response.handlerCalls = 1 <=> \A i \in 1..Len(args) : Holds(u, args[i])
                /\ (response.handlerCalls = 0 /\ StartsWith(incoming.path, "/api/")) =>
                    /\ response.status = 403
                    /\ response.message = "You are missing these permissions: "
                                            \o Join(SelectSeq(args, lacks), ", ")
            /\ endpoint.kind = "has_any_permission" =>
                (response.handlerCalls = 1 <=> \E i \in 1..Len(args) : Holds(u, args[i]))

\* a user holding view_users only, under
\* has_all_permissions('view_users', 'edit_users'): 403 naming edit_users
C10_Witness ==
    /\ endpoint = [kind |-> "has_all_permissions", args |-> <<"view_users", "edit_users">>]
    /\ incoming.user \in Users
    /\ GrantedBy(LinkedRoles(incoming.user)) = {"view_users"}
    /\ incoming.path = "/api/users/"
    /\ response.status = 403
    /\ response.message = "You are missing these permissions: edit_users"

\* the same user under has_any_permission('view_users', 'edit_users') is
\* served
C10_WitnessAny ==
    /\ endpoint = [kind |-> "has_any_permission", args |-> <<"view_users", "edit_users">>]
    /\ incoming.user \in Users
    /\ GrantedBy(LinkedRoles(incoming.user)) = {"view_users"}
    /\ response.handlerCalls = 1

(***************************************************************************)
(* RBACMiddleware.__call__: the pipeline stage.  It sees the user that     *)
(* Django's AuthenticationMiddleware put on the request.                   *)
(***************************************************************************)
skip_paths == << "/admin/", "/api/auth/", "/api/token/", "/api/login/",
                 "/api/logout/", "/static/", "/media/", "/access-denied/" >>

\* the skip test comparing the whole path instead of its prefix
ShouldSkipExactPath(request) ==
    \E i \in 1..Len(skip_paths) : request.path = skip_paths[i]

\* any(request.path.startswith(path) for path in skip_paths)
_should_skip_permission_check(request) ==
    \E i \in 1..Len(skip_paths) : StartsWith(request.path, skip_paths[i])

_access_denied_response(request) ==
    IF StartsWith(request.path, "/api/")
    THEN JsonResponse("Access Denied",
                      "You do not have permission to access this resource.", 403)
    ELSE RedirectWithMessage("access_denied",
                             "You do not have permission to access this resource.")

\* what the stage did: the branch of __call__ that returned, and its own
\* response when it did not call get_response
StagePassed(branch) == [branch |-> branch, denied |-> FALSE, response |-> NoResponse]

StageDenied(resp) == [branch |-> "checked", denied |-> TRUE, response |-> resp]

\* the stage refusing every request of a user without an active UserRole,
\* before looking at the table
MiddlewareRolesFirst(request) ==
    IF _should_skip_permission_check(request) THEN StagePassed("skipped")
    ELSE IF ~is_authenticated(request) THEN StagePassed("unauthenticated")
    ELSE IF StartsWith(request.path, "/api/")
    THEN IF ActiveUserRoles(request.user) = {} \/ ~_check_api_permission(request).ret
         THEN StageDenied(_access_denied_response(request))
         ELSE StagePassed("checked")
    ELSE StagePassed("not_api")

RBACMiddleware_call(request) ==
    IF _should_skip_permission_check(request) THEN StagePassed("skipped")
    ELSE IF ~is_authenticated(request) THEN StagePassed("unauthenticated")
    ELSE IF StartsWith(request.path, "/api/")
    THEN IF ~_check_api_permission(request).ret
         THEN StageDenied(_access_denied_response(request))
         ELSE StagePassed("checked")
    ELSE StagePassed("not_api")

(***************************************************************************)
(* The catalog of setup_rbac.                                              *)
(***************************************************************************)
permissions_data == <<
    [codename |-> "view_users", name |-> "Can view users"],
    [codename |-> "add_users", name |-> "Can add users"],
    [codename |-> "edit_users", name |-> "Can edit users"],
    [codename |-> "delete_users", name |-> "Can delete users"],
    [codename |-> "view_transactions", name |-> "Can view transactions"],
    [codename |-> "add_transactions", name |-> "Can add transactions"],
    [codename |-> "edit_transactions", name |-> "Can edit transactions"],
    [codename |-> "delete_transactions", name |-> "Can delete transactions"],
    [codename |-> "view_banks", name |-> "Can view bank accounts"],
    [codename |-> "add_banks", name |-> "Can add bank accounts"],
    [codename |-> "edit_banks", name |-> "Can edit bank accounts"],
    [codename |-> "delete_banks", name |-> "Can delete bank accounts"],
    [codename |-> "view_contractors", name |-> "Can view contractors"],
    [codename |-> "add_contractors", name |-> "Can add contractors"],
    [codename |-> "edit_contractors", name |-> "Can edit contractors"],
    [codename |-> "delete_contractors", name |-> "Can delete contractors"],
    [codename |-> "view_settings", name |-> "Can view settings"],
    [codename |-> "edit_settings", name |-> "Can edit settings"],
    [codename |-> "view_reports", name |-> "Can view reports"],
    [codename |-> "export_reports", name |-> "Can export reports"],
    [codename |-> "backup_data", name |-> "Can backup data"],
    [codename |-> "restore_data", name |-> "Can restore data"] >>

CatalogCodenames == {permissions_data[i].codename : i \in 1..Len(permissions_data)}

roles_data == <<
    [name |-> "Chief Officer", permissions |-> CatalogCodenames],
    [name |-> "Accountant Officer",
     permissions |-> {"view_banks", "add_banks", "edit_banks",
                      "view_contractors",
                      "view_transactions", "add_transactions", "delete_transactions",
                      "view_reports", "export_reports",
                      "backup_data"}],
    [name |-> "Auditor",
     permissions |-> {"view_banks",
                      "view_contractors", "add_contractors", "edit_contractors",
                      "view_transactions",
                      "view_reports", "export_reports",
                      "backup_data"}],
    [name |-> "Clerk",
     permissions |-> {"view_transactions", "view_reports", "export_reports"}] >>

\* the RolePermission rows the catalog asks for
DesiredGrants ==
    {rp \in RoleNames \X CatalogCodenames :
        \E i \in 1..Len(roles_data) :
            roles_data[i].name = rp[1] /\ rp[2] \in roles_data[i].permissions}

(***************************************************************************)
(* The whole pipeline of an API request: the middleware stage, then the    *)
(* REST framework view (authentication by token, else by session; the      *)
(* IsAuthenticated permission), then the handler under its decorator.      *)
(* A request carries the user of its session cookie and the user of its    *)
(* Authorization token, either of which may be absent.                     *)
(***************************************************************************)
\* request.user as AuthenticationMiddleware sets it: the session's user
HttpRequest(raw) == [user |-> raw.session, path |-> raw.path, method |-> raw.method]

\* DEFAULT_AUTHENTICATION_CLASSES: TokenAuthentication, then
\* SessionAuthentication
perform_authentication(raw) == IF raw.token # None THEN raw.token ELSE raw.session

\* the request the handler and its decorator receive
DrfRequest(raw) ==
    [user |-> perform_authentication(raw), path |-> raw.path, method |-> raw.method]

\* the handlers the router reaches, with the codename of their decorator
Routes == {
    [path |-> "/api/transactions/", method |-> "POST",
     view |-> "TransactionViewSet.create", codename |-> "add_transactions"],
    [path |-> "/api/transactions/bulk-delete/", method |-> "POST",
     view |-> "TransactionViewSet.bulk_delete", codename |-> "delete_transactions"],
    [path |-> "/api/transactions/1/", method |-> "DELETE",
     view |-> "TransactionViewSet.destroy", codename |-> "delete_transactions"],
    [path |-> "/api/backup/", method |-> "POST",
     view |-> "BackupView.post", codename |-> None] }

\* what the pipeline answered: the response, whether the handler body ran,
\* the call it made to utils.backup, and the gate that refused
Answer(resp, effect, gate) ==
    [status |-> resp.status, error |-> resp.error, message |-> resp.message,
     handlerCalls |-> resp.handlerCalls, effect |-> effect, gate |-> gate]

\* Response({...}, status=...) of a view
DrfResponse(error, message, status) ==
    [NoResponse EXCEPT !.status = status, !.error = error, !.message = message,
                       !.handlerCalls = 1]

\* BackupView.post answering restore on the permission of backup
BackupViewOneGate(request, data) ==
    LET action == IF data = None THEN "backup" ELSE data
    IN  IF action \in {"backup", "restore"}
        THEN IF ~_user_has_permission(request.user, "backup_data").ret
             THEN Answer(DrfResponse("Access Denied",
                            "You do not have permission to create backup.", 403),
                         "none", "view")
             ELSE Answer(DrfResponse("", "", 200), action, "none")
        ELSE Answer(DrfResponse("", "Invalid action", 400), "none", "none")

BackupView_post(request, data) ==
    LET action == IF data = None THEN "backup" ELSE data
    IN  IF action = "backup"
        THEN IF ~_user_has_permission(request.user, "backup_data").ret
             THEN Answer(DrfResponse("Access Denied",
                            "You do not have permission to create backup.", 403),
                         "none", "view")
             ELSE Answer(DrfResponse("", "", 200), "create_backup", "none")
        ELSE IF action = "restore"
        THEN IF ~_user_has_permission(request.user, "restore_data").ret
             THEN Answer(DrfResponse("Access Denied",
                            "You do not have permission to restore.", 403),
                         "none", "view")
             ELSE Answer(DrfResponse("", "", 200), "restore_backup", "none")
        ELSE Answer(DrfResponse("", "Invalid action", 400), "none", "none")

\* the view calling its handler without the decorator
APIViewDispatchUndecorated(raw, route, data) ==
    IF perform_authentication(raw) = AnonymousUser
    THEN Answer(JsonResponse("", "Authentication credentials were not provided.", 401),
                "none", "authentication")
    ELSE IF route.view = "BackupView.post"
    THEN BackupView_post(DrfRequest(raw), data)
    ELSE Answer(view_func(DrfRequest(raw)), "none", "none")

\* APIView.dispatch: initial() authenticates and applies IsAuthenticated,
\* then the handler runs
APIView_dispatch(raw, route, data) ==
    IF perform_authentication(raw) = AnonymousUser
    THEN Answer(JsonResponse("", "Authentication credentials were not provided.", 401),
                "none", "authentication")
    ELSE IF route.view = "BackupView.post"
    THEN BackupView_post(DrfRequest(raw), data)
    ELSE IF route.codename = None
    THEN Answer(view_func(DrfRequest(raw)), "none", "none")
    ELSE LET resp == has_permission(route.codename, DrfRequest(raw))
         IN  Answer(resp, "none", IF resp.handlerCalls = 1 THEN "none" ELSE "view")

get_response(raw, route, data) ==
    LET stage == RBACMiddleware_call(HttpRequest(raw))
    IN  IF stage.denied
        THEN Answer(stage.response, "none", "middleware")
        ELSE APIView_dispatch(raw, route, data)

(***************************************************************************)
(* PipelineSpec: API requests through the whole pipeline, while grants     *)
(* and assignments of two roles change.                                    *)
(***************************************************************************)
PipelineRoles == {"Chief Officer", "Accountant Officer"}

PipelineCodenames ==
    {"add_transactions", "delete_transactions", "backup_data", "restore_data"}

\* the grants setup_rbac seeds, on the roles and codenames of this pipeline
SeededPipelineGrants ==
    {rp \in DesiredGrants : rp[1] \in PipelineRoles /\ rp[2] \in PipelineCodenames}

\* request.data.get("action"): absent, or the value sent
BackupActions == {None, "backup", "restore", "purge"}

\* The two roles and the four permissions exist; no grant is made yet, or
\* the grants are those setup_rbac seeds.
PipelineInit ==
    /\ permissions = PipelineCodenames
    /\ roles = [r \in PipelineRoles |-> TRUE]
    /\ rolePerms \in {{}, SeededPipelineGrants}
    /\ userRoles = <<>>
    /\ userRole = [u \in Users |-> 4]
    /\ endpoint = NoEndpoint
    /\ incoming = NoRequest
    /\ response = NoResponse

\* an API request, answered by the pipeline
ApiRequest(session, token, route, data) ==
    /\ Idle
    /\ data # None => route.view = "BackupView.post"
    /\ LET raw == [session |-> session, token |-> token,
                   path |-> route.path, method |-> route.method]
       IN  /\ endpoint' = [kind |-> route.view, args |-> <<data>>]
           /\ incoming' = raw
           /\ response' = get_response(raw, route, data)
    /\ UNCHANGED dbVars

PipelineNext ==
    \/ \E r \in PipelineRoles, c \in PipelineCodenames : GrantPermission(r, c)
    \/ \E r \in PipelineRoles, c \in PipelineCodenames : RevokePermission(r, c)
    \/ \E u \in ManagedUsers, r \in PipelineRoles, a \in BOOLEAN : AssignRole(u, r, a)
    \/ \E u \in ManagedUsers, r \in PipelineRoles, a \in BOOLEAN :
            SetUserRoleActive(u, r, a)
    \/ \E session \in Callers, token \in {None} \cup ManagedUsers,
          route \in Routes, data \in BackupActions :
            ApiRequest(session, token, route, data)
    \/ SendResponse

PipelineSpec == PipelineInit /\ [][PipelineNext]_vars

\* the codename the middleware table requires of the answered request
TableRequires == _get_required_permission(incoming.path, incoming.method)

\* the handler the answered request was routed to sits under a decorator
\* and its path and method are in the middleware table
DoublyGated ==
    /\ endpoint.kind \in {r.view : r \in {x \in Routes : x.codename # None}}
    /\ TableRequires # None

\* the codename of the decorator of the handler the request was routed to
DecoratorRequires ==
    (CHOOSE r \in Routes : r.view = endpoint.kind).codename

(***************************************************************************)
(* C11: the two gates compose as a logical AND: on an endpoint that is     *)
(* both decorated and in the middleware table, the request of an           *)
(* authenticated user reaches the handler only if the user holds the       *)
(* codename the table requires and the codename the decorator requires.    *)
(***************************************************************************)
C11_GatesCompose ==
    (DoublyGated /\ response.handlerCalls = 1) =>
        /\ Holds(perform_authentication(incoming), TableRequires)
        /\ Holds(perform_authentication(incoming), DecoratorRequires)

\* What does hold: a request whose user comes from the session passes both
\* gates; a request authenticated by token passes the decorator's.
GatesComposeForSessions ==
    (DoublyGated /\ response.handlerCalls = 1) =>
        /\ Holds(perform_authentication(incoming), DecoratorRequires)
        /\ (incoming.token = None) =>
                Holds(perform_authentication(incoming), TableRequires)

(***************************************************************************)
(* StageSpec: the middleware stage alone, in front of a handler that       *)
(* answers every request it is given, while grants, assignments and the    *)
(* legacy role change.                                                     *)
(***************************************************************************)
Methods == {"GET", "POST", "PUT", "PATCH", "DELETE", "HEAD"}

StagePaths ==
    { "/admin/login/", "/api/auth/login/", "/api/token/", "/api/login/",
      "/api/logout/", "/static/app.css", "/media/logo.png", "/access-denied/",
      "/api/settings/", "/api/settings/image-path/", "/api/settings/image-path/logo/",
      "/api/reports/", "/api/backup/", "/api/users/", "/api/roles/",
      "/dashboard/", "/admin" }

\* the codenames of the table that have a Permission row in this store;
\* those of /api/users/ have none
StageCodenames == {"view_settings", "view_reports", "backup_data"}

StageInit ==
    /\ permissions = StageCodenames
    /\ roles = [r \in ManagedRoles |-> TRUE]
    /\ rolePerms = {}
    /\ userRoles = <<>>
    /\ userRole = [u \in Users |-> 4]
    /\ endpoint = NoEndpoint
    /\ incoming = NoRequest
    /\ response = NoResponse

\* a request arriving at the stage with the user its session gives it
StageRequest(u, path, method) ==
    /\ Idle
    /\ LET request == [user |-> u, path |-> path, method |-> method]
           stage == RBACMiddleware_call(request)
       IN  /\ endpoint' = [kind |-> "middleware", args |-> <<stage.branch>>]
           /\ incoming' = request
           /\ response' = IF stage.denied THEN stage.response ELSE view_func(request)
    /\ UNCHANGED dbVars

StageNext ==
    \/ \E r \in ManagedRoles, c \in StageCodenames : GrantPermission(r, c)
    \/ \E r \in ManagedRoles, c \in StageCodenames : RevokePermission(r, c)
    \/ \E u \in ManagedUsers, r \in ManagedRoles, a \in BOOLEAN : AssignRole(u, r, a)
    \/ \E u \in ManagedUsers, r \in ManagedRoles, a \in BOOLEAN :
            SetUserRoleActive(u, r, a)
    \/ \E u \in ManagedUsers, v \in {3, 4} : SetLegacyRole(u, v)
    \/ \E u \in ManagedUsers \cup {AnonymousUser}, path \in StagePaths, m \in Methods :
            StageRequest(u, path, m)
    \/ SendResponse

StageSpec == StageInit /\ [][StageNext]_vars

\* the prefixes the stage never gates
SkipPrefixes == {"/admin/", "/api/auth/", "/api/token/", "/api/login/", "/api/logout/",
                 "/static/", "/media/", "/access-denied/"}

OnSkipList(path) == \E prefix \in SkipPrefixes : StartsWith(path, prefix)

\* the stage answered the request itself, with the JSON 403
StageRefused ==
    /\ response.status = 403
    /\ response.error = "Access Denied"
    /\ response.redirect = ""
    /\ response.handlerCalls = 0

(***************************************************************************)
(* C12: the stage denies a request exactly when the path starts with no    *)
(* skip-list prefix, the request is authenticated, the path starts with    *)
(* /api/, the table yields a codename P for path and method, and no active *)
(* UserRole of the user points to a role with a RolePermission for P; the  *)
(* legacy role is not consulted.  Every other request goes to the next     *)
(* handler unchanged.  A denial is the JSON 403.                           *)
(***************************************************************************)
C12_StageDeniesIff ==
    endpoint.kind = "middleware" =>
        LET denies == /\ ~OnSkipList(incoming.path)
                      /\ incoming.user # AnonymousUser
                      /\ StartsWith(incoming.path, "/api/")
                      /\ TableRequires # None
                      /\ ~Holds(incoming.user, TableRequires)
        IN  /\ denies => StageRefused
            /\ ~denies => response = view_func(incoming)

\* a user whose legacy role is Auditor, with one inactive UserRole to a role
\* that has the grant and an active one to a role without it, is refused the
\* reports
C12_Witness ==
    /\ endpoint.kind = "middleware"
    /\ incoming.path = "/api/reports/"
    /\ incoming.method = "GET"
    /\ incoming.user \in Users
    /\ userRole[incoming.user] = 3
    /\ \E r, q \in ManagedRoles :
        /\ <<r, "view_reports">> \in rolePerms
        /\ <<incoming.user, r>> \in DOMAIN userRoles
        /\ ~userRoles[<<incoming.user, r>>]
        /\ ActiveLink(incoming.user, q)
        /\ <<q, "view_reports">> \notin rolePerms
    /\ StageRefused

\* the same request is passed on once an active UserRole reaches the grant
C12_WitnessPassed ==
    /\ endpoint.kind = "middleware"
    /\ incoming.path = "/api/reports/"
    /\ incoming.method = "GET"
    /\ incoming.user \in Users
    /\ Holds(incoming.user, "view_reports")
    /\ response.handlerCalls = 1

(***************************************************************************)
(* C13: a request whose path starts with a skip-list prefix is never       *)
(* denied by the stage, whatever its method and the caller's grants, with  *)
(* or without identity: the stage hands it on without running the          *)
(* permission check.                                                       *)
(***************************************************************************)
C13_SkipListNeverDenied ==
    (endpoint.kind = "middleware" /\ OnSkipList(incoming.path)) =>
        /\ response = view_func(incoming)
        /\ endpoint.args = <<"skipped">>

\* a DELETE below /api/auth/ by a user without any UserRole was handed on
C13_Witness ==
    /\ endpoint.kind = "middleware"
    /\ incoming.path = "/api/auth/login/"
    /\ incoming.method = "DELETE"
    /\ incoming.user \in Users
    /\ DOMAIN userRoles = {}
    /\ response.handlerCalls = 1

\* so was an anonymous POST below /admin/
C13_WitnessAnonymous ==
    /\ endpoint.kind = "middleware"
    /\ incoming.path = "/admin/login/"
    /\ incoming.method = "POST"
    /\ incoming.user = AnonymousUser
    /\ response.handlerCalls = 1

\* the table entries whose pattern the path starts with
MatchingEntries(path) ==
    {i \in 1..Len(permission_map) : StartsWith(path, permission_map[i].pattern)}

\* the required permission under the rule: the entry equal to the path,
\* else the entry with the longest pattern the path starts with
LongestPrefixRequires(path, method) ==
    IF \E i \in 1..Len(permission_map) : permission_map[i].pattern = path
    THEN DictGet(permission_map[CHOOSE i \in 1..Len(permission_map) :
                                   permission_map[i].pattern = path].permissions, method)
    ELSE IF MatchingEntries(path) = {} THEN None
    ELSE LET longest == CHOOSE i \in MatchingEntries(path) :
                            \A j \in MatchingEntries(path) :
                                Len(permission_map[j].pattern) <= Len(permission_map[i].pattern)
         IN  DictGet(permission_map[longest].permissions, method)

(***************************************************************************)
(* C14: the required permission of a request is that of the table entry    *)
(* equal to the path, else that of the longest table prefix the path       *)
(* starts with; where /api/settings/ and /api/settings/image-path/ both    *)
(* match, the more specific entry decides, whatever the declaration order. *)
(***************************************************************************)
C14_LongestPrefixDecides ==
    endpoint.kind = "middleware" =>
        /\ TableRequires = LongestPrefixRequires(incoming.path, incoming.method)
        /\ (/\ incoming.user # AnonymousUser
            /\ StartsWith(incoming.path, "/api/settings/image-path/")
            /\ incoming.method = "GET") => response.handlerCalls = 1

\* What does hold: the first matching entry in declaration order decides.
FirstDeclaredPrefixDecides ==
    \A path \in StagePaths, m \in Methods :
        _get_required_permission(path, m) =
            IF \E i \in 1..Len(permission_map) : permission_map[i].pattern = path
            THEN LongestPrefixRequires(path, m)
            ELSE IF MatchingEntries(path) = {} THEN None
            ELSE DictGet(permission_map[CHOOSE i \in MatchingEntries(path) :
                            \A j \in MatchingEntries(path) : i <= j].permissions, m)

\* the table entry that decides for a path: the one equal to it, else the
\* first declared one the path starts with; 0 when there is none
DecisiveEntry(path) ==
    IF \E i \in 1..Len(permission_map) : permission_map[i].pattern = path
    THEN CHOOSE i \in 1..Len(permission_map) : permission_map[i].pattern = path
    ELSE IF MatchingEntries(path) = {} THEN 0
    ELSE CHOOSE i \in MatchingEntries(path) : \A j \in MatchingEntries(path) : i <= j

\* the table asks nothing of the request: no entry, no value for the
\* method, or the value None
Unrestricted(path, method) ==
    LET i == DecisiveEntry(path)
    IN  \/ i = 0
        \/ method \notin DOMAIN permission_map[i].permissions
        \/ permission_map[i].permissions[method] = None

(***************************************************************************)
(* C15: the stage passes an authenticated /api/ request, whatever the      *)
(* user's grants and even without any role, when the table has no entry    *)
(* for the path, the entry has no value for the method (as for /api/reports/*)
(* and /api/backup/), or the value is None (GET /api/settings/image-path/).*)
(***************************************************************************)
C15_UnrestrictedPasses ==
    /\ \A m \in Methods : Unrestricted("/api/roles/", m)
    /\ \A m \in Methods \ {"GET"} : Unrestricted("/api/reports/", m)
    /\ \A m \in Methods \ {"POST"} : Unrestricted("/api/backup/", m)
    /\ Unrestricted("/api/settings/image-path/", "GET")
    /\ (/\ endpoint.kind = "middleware"
        /\ incoming.user # AnonymousUser
        /\ StartsWith(incoming.path, "/api/")
        /\ Unrestricted(incoming.path, incoming.method))
       => response = view_func(incoming)

\* GET /api/settings/image-path/ by a user without any UserRole was passed
C15_Witness ==
    /\ endpoint.kind = "middleware"
    /\ incoming.path = "/api/settings/image-path/"
    /\ incoming.method = "GET"
    /\ incoming.user \in Users
    /\ DOMAIN userRoles = {}
    /\ response.handlerCalls = 1

\* DELETE /api/reports/ by a user whose only role has no grant was passed
C15_WitnessNoMethod ==
    /\ endpoint.kind = "middleware"
    /\ incoming.path = "/api/reports/"
    /\ incoming.method = "DELETE"
    /\ incoming.user \in Users
    /\ LinkedRoles(incoming.user) # {}
    /\ rolePerms = {}
    /\ response.handlerCalls = 1

(***************************************************************************)
(* setup_rbac: Command.handle, run on a store                              *)
(*   [permissions, roles, rolePerms, raised].                              *)
(* Permission.name is unique as Permission.codename is: creating a         *)
(* catalog permission whose name a row of another codename already has     *)
(* raises IntegrityError, which ends the command where it stands.          *)
(***************************************************************************)
\* Permission rows outside the catalog, codename |-> name; the first has the
\* name the catalog gives view_reports
ForeignPermissions ==
    [c \in {"reports_view", "archive_data"} |->
        IF c = "reports_view" THEN "Can view reports" ELSE "Can archive data"]

\* codename |-> name, as permissions_data gives them
CatalogNames ==
    [c \in CatalogCodenames |->
        permissions_data[CHOOSE i \in 1..Len(permissions_data) :
                            permissions_data[i].codename = c].name]

\* the name of the Permission row of a codename
PermissionName(c) ==
    IF c \in DOMAIN ForeignPermissions THEN ForeignPermissions[c]
    ELSE CatalogNames[c]

Store(ps, rs, rps) == [permissions |-> ps, roles |-> rs, rolePerms |-> rps, raised |-> FALSE]

\* for perm_data in permissions_data: Permission.objects.get_or_create(...)
RECURSIVE CreatePermissionsFrom(_, _)
CreatePermissionsFrom(st, i) ==
    IF i > Len(permissions_data) THEN st
    ELSE LET perm_data == permissions_data[i]
         IN  IF perm_data.codename \in st.permissions
             THEN CreatePermissionsFrom(st, i + 1)
             ELSE IF \E c \in st.permissions : PermissionName(c) = perm_data.name
             THEN [st EXCEPT !.raised = TRUE]
             ELSE CreatePermissionsFrom(
                    [st EXCEPT !.permissions = @ \cup {perm_data.codename}], i + 1)

\* the cleanup loop also deleting the rows of roles outside the catalog
CleanupEveryRole(rps, role, desired) ==
    {rp \in rps : rp[2] \in desired}

\* the command without its cleanup loop
CleanupSkipped(rps, role, desired) == rps

\* for rp in current_rps: if codename not in desired: rp.delete()
Cleanup(rps, role, desired) ==
    {rp \in rps : rp[1] # role \/ rp[2] \in desired}

\* the body of `for role_data in roles_data`: get_or_create the role,
\* get_or_create each desired RolePermission whose Permission exists, then
\* the cleanup
SetupRole(st, role_data) ==
    LET role == role_data.name
        desired == role_data.permissions
        rs == IF role \in DOMAIN st.roles THEN st.roles
              ELSE [x \in DOMAIN st.roles \cup {role} |->
                        IF x = role THEN TRUE ELSE st.roles[x]]
        assigned == st.rolePerms \cup {<<role, c>> : c \in desired \cap st.permissions}
    IN  [st EXCEPT !.roles = rs, !.rolePerms = Cleanup(assigned, role, desired)]

RECURSIVE SetupRolesFrom(_, _)
SetupRolesFrom(st, i) ==
    IF i > Len(roles_data) THEN st
    ELSE SetupRolesFrom(SetupRole(st, roles_data[i]), i + 1)

\* the command assigning the roles before it creates the permissions
SetupRbacRolesFirst(st) ==
    LET assigned == SetupRolesFrom(st, 1)
    IN  CreatePermissionsFrom(assigned, 1)

setup_rbac(st) ==
    LET created == CreatePermissionsFrom(st, 1)
    IN  IF created.raised THEN created ELSE SetupRolesFrom(created, 1)

\* python manage.py setup_rbac
SetupRbac ==
    /\ Idle
    /\ LET st == setup_rbac(Store(permissions, roles, rolePerms))
       IN  /\ permissions' = st.permissions
           /\ roles' = st.roles
           /\ rolePerms' = st.rolePerms
    /\ UNCHANGED <<userRoles, userRole, reqVars>>

(***************************************************************************)
(* MatrixSpec: setup_rbac on an empty store, a user given seeded roles,    *)
(* and the CRUD requests of the five resources and the reports, by session *)
(* or by token.                                                            *)
(***************************************************************************)
\* the viewsets, the root of their URLs and the resource of their codenames
Resources == {
    [viewset |-> "UserViewSet", root |-> "/api/users/", resource |-> "users"],
    [viewset |-> "BankAccountViewSet", root |-> "/api/bank-accounts/", resource |-> "banks"],
    [viewset |-> "ContractorViewSet", root |-> "/api/contractors/",
     resource |-> "contractors"],
    [viewset |-> "TransactionViewSet", root |-> "/api/transactions/",
     resource |-> "transactions"],
    [viewset |-> "SettingViewSet", root |-> "/api/settings/", resource |-> "settings"] }

\* the actions of a ModelViewSet: method, whether the URL names a row, and
\* the codename prefix of the decorator (for settings: edit_ but for list)
Actions == {
    [action |-> "list", method |-> "GET", detail |-> FALSE, prefix |-> "view_"],
    [action |-> "create", method |-> "POST", detail |-> FALSE, prefix |-> "add_"],
    [action |-> "update", method |-> "PUT", detail |-> TRUE, prefix |-> "edit_"],
    [action |-> "partial_update", method |-> "PATCH", detail |-> TRUE, prefix |-> "edit_"],
    [action |-> "destroy", method |-> "DELETE", detail |-> TRUE, prefix |-> "delete_"] }

\* @method_decorator(has_permission(codename), name=action)
DecoratorCodename(res, act) ==
    IF res.resource = "settings" /\ act.action # "list" THEN "edit_settings"
    ELSE act.prefix \o res.resource

CrudRoutes ==
    {[path |-> IF act.detail THEN res.root \o "1/" ELSE res.root,
      method |-> act.method,
      view |-> res.viewset \o "." \o act.action,
      codename |-> DecoratorCodename(res, act)] : res \in Resources, act \in Actions}
    \cup {[path |-> "/api/reports/", method |-> "GET",
           view |-> "ReportsView.get", codename |-> "view_reports"]}

\* a CRUD request, answered by the pipeline
CrudRequest(session, token, route) ==
    /\ Idle
    /\ LET raw == [session |-> session, token |-> token,
                   path |-> route.path, method |-> route.method]
       IN  /\ endpoint' = [kind |-> route.view, args |-> <<route.codename>>]
           /\ incoming' = raw
           /\ response' = get_response(raw, route, None)
    /\ UNCHANGED dbVars

MatrixNext ==
    \/ (roles = <<>> /\ SetupRbac)
    \/ \E u \in ManagedUsers, r \in RoleNames : AssignRole(u, r, TRUE)
    \/ \E u \in ManagedUsers, r \in RoleNames, a \in BOOLEAN : SetUserRoleActive(u, r, a)
    \/ \E session \in {AnonymousUser} \cup ManagedUsers, token \in {None} \cup ManagedUsers,
          route \in CrudRoutes :
            CrudRequest(session, token, route)
    \/ SendResponse

MatrixSpec == Init /\ [][MatrixNext]_vars

\* the permission set the catalog seeds for a role
SeededPermissions(role) ==
    (CHOOSE rd \in {roles_data[i] : i \in 1..Len(roles_data)} : rd.name = role).permissions

\* a CRUD request of an authenticated user whose only active UserRole is to
\* the seeded role r was answered
AnsweredAs(r) ==
    /\ endpoint.kind \in {route.view : route \in CrudRoutes}
    /\ perform_authentication(incoming) # AnonymousUser
    /\ LinkedRoles(perform_authentication(incoming)) = {r}

Allowed == response.handlerCalls = 1

Forbidden == response.handlerCalls = 0 /\ response.status = 403

(***************************************************************************)
(* C16: after setup_rbac on an empty store, a user whose only active       *)
(* UserRole is one of the four seeded roles is allowed a CRUD action (or   *)
(* GET on reports) exactly when the role's seeded permission set holds the *)
(* action's codename, and gets 403 otherwise.  Clerk may view reports and  *)
(* gets 403 on adding a transaction; Accountant Officer may add and delete *)
(* transactions and gets 403 on deleting a bank account; Auditor may add   *)
(* and edit contractors and gets 403 on deleting one; Chief Officer is     *)
(* allowed every action.                                                   *)
(***************************************************************************)
C16_SeededMatrix ==
    \A r \in RoleNames : AnsweredAs(r) =>
        /\ Allowed <=> endpoint.args[1] \in SeededPermissions(r)
        /\ ~Allowed => Forbidden
        /\ r = "Clerk" =>
            /\ endpoint.kind = "ReportsView.get" => Allowed
            /\ endpoint.kind = "TransactionViewSet.create" => Forbidden
        /\ r = "Accountant Officer" =>
            /\ endpoint.kind \in {"TransactionViewSet.create",
                                  "TransactionViewSet.destroy"} => Allowed
            /\ endpoint.kind = "BankAccountViewSet.destroy" => Forbidden
        /\ r = "Auditor" =>
            /\ endpoint.kind \in {"ContractorViewSet.create", "ContractorViewSet.update",
                                  "ContractorViewSet.partial_update"} => Allowed
            /\ endpoint.kind = "ContractorViewSet.destroy" => Forbidden
        /\ r = "Chief Officer" => Allowed

\* an Accountant Officer with a token, whose UserRole to Chief Officer is
\* inactive, was refused the deletion of a bank account
C16_Witness ==
    /\ AnsweredAs("Accountant Officer")
    /\ incoming.token # None
    /\ <<incoming.token, "Chief Officer">> \in DOMAIN userRoles
    /\ endpoint.kind = "BankAccountViewSet.destroy"
    /\ Forbidden

\* an Auditor with a session was allowed to edit a contractor
C16_WitnessAllowed ==
    /\ AnsweredAs("Auditor")
    /\ incoming.token = None
    /\ endpoint.kind = "ContractorViewSet.partial_update"
    /\ Allowed

\* POST /api/backup/ was answered by BackupView.post itself: the request
\* passed the middleware stage and the view's authentication
BackupHandlerRan ==
    /\ endpoint.kind = "BackupView.post"
    /\ response.gate \notin {"middleware", "authentication"}

\* request.data.get("action", "backup") of the answered request
BackupAction == IF endpoint.args[1] = None THEN "backup" ELSE endpoint.args[1]

(***************************************************************************)
(* C17: POST /api/backup/ is gated per action inside the handler.  Action  *)
(* 'backup' (the default) creates a backup exactly when the user holds     *)
(* backup_data and answers 403 without creating one otherwise; action      *)
(* 'restore' attempts the restore exactly when the user holds restore_data *)
(* and answers 403 without restoring otherwise; backup_data never suffices *)
(* for restore.  With the seeded grants Accountant Officer can back up but *)
(* not restore, and Chief Officer can restore.                             *)
(***************************************************************************)
C17_BackupGatedPerAction ==
    endpoint.kind = "BackupView.post" =>
        LET u == perform_authentication(incoming)
            refused == response.status = 403 /\ response.effect = "none"
            \* the caller is a user of role r alone and the request carries
            \* no other user's session
            seeded(r) == /\ rolePerms = SeededPipelineGrants
                         /\ u # AnonymousUser
                         /\ incoming.session \in {AnonymousUser, u}
                         /\ LinkedRoles(u) = {r}
        IN  /\ (BackupHandlerRan /\ BackupAction = "backup") =>
                /\ response.effect = "create_backup" <=> Holds(u, "backup_data")
                /\ ~Holds(u, "backup_data") => refused
            /\ (BackupHandlerRan /\ BackupAction = "restore") =>
                /\ response.effect = "restore_backup" <=> Holds(u, "restore_data")
                /\ ~Holds(u, "restore_data") => refused
            /\ response.effect = "create_backup" =>
                BackupAction = "backup" /\ Holds(u, "backup_data")
            /\ response.effect = "restore_backup" =>
                BackupAction = "restore" /\ Holds(u, "restore_data")
            /\ seeded("Accountant Officer") =>
                /\ BackupAction = "backup" => response.effect = "create_backup"
                /\ BackupAction = "restore" => refused
            /\ (seeded("Chief Officer") /\ BackupAction = "restore") =>
                response.effect = "restore_backup"

\* a user holding backup_data and not restore_data asked for a restore and
\* got the handler's 403
C17_Witness ==
    /\ BackupHandlerRan
    /\ BackupAction = "restore"
    /\ Holds(perform_authentication(incoming), "backup_data")
    /\ ~Holds(perform_authentication(incoming), "restore_data")
    /\ response.status = 403
    /\ response.message = "You do not have permission to restore."
    /\ response.effect = "none"

\* with the seeded grants a Chief Officer's restore was attempted and an
\* Accountant Officer's default action made a backup
C17_WitnessSeededRestore ==
    /\ endpoint.kind = "BackupView.post"
    /\ rolePerms = SeededPipelineGrants
    /\ LinkedRoles(perform_authentication(incoming)) = {"Chief Officer"}
    /\ response.effect = "restore_backup"

C17_WitnessSeededBackup ==
    /\ endpoint = [kind |-> "BackupView.post", args |-> <<None>>]
    /\ rolePerms = SeededPipelineGrants
    /\ LinkedRoles(perform_authentication(incoming)) = {"Accountant Officer"}
    /\ response.effect = "create_backup"

(***************************************************************************)
(* UserSerializer: the administrative API creating and updating users.     *)
(* The User rows are the domain of userRole.                               *)
(***************************************************************************)
\* ROLE_NAME_BY_ID.get(role_id)
RoleNameOf(role_id) ==
    IF role_id \in DOMAIN ROLE_NAME_BY_ID THEN ROLE_NAME_BY_ID[role_id] ELSE None

\* UserRole.objects.get_or_create(user=user, role=role, defaults={"is_active": True})
UserRole_get_or_create(user, role) ==
    IF <<user, role>> \in DOMAIN userRoles THEN userRoles
    ELSE [k \in DOMAIN userRoles \cup {<<user, role>>} |->
            IF k = <<user, role>> THEN TRUE ELSE userRoles[k]]

\* the UserRole table after create(): the role named by the new user's
\* role field, if it is an active Role, is linked
UserSerializer_create(user, role_id) ==
    LET role_name == RoleNameOf(role_id)
    IN  IF role_name # None /\ ActiveRoleNamed(role_name) # None
        THEN UserRole_get_or_create(user, role_name)
        ELSE userRoles

\* update() leaving an existing link as it finds it
UserSerializerUpdateGetOrCreate(instance, role_id) ==
    LET role_name == RoleNameOf(role_id)
    IN  IF role_name # None /\ ActiveRoleNamed(role_name) # None
        THEN UserRole_get_or_create(instance, role_name)
        ELSE userRoles

\* update() switching the user's other links off
UserSerializerUpdateReplacesRole(instance, role_id) ==
    LET role_name == RoleNameOf(role_id)
    IN  IF role_name # None /\ ActiveRoleNamed(role_name) # None
        THEN LET linked == UserRole_get_or_create(instance, role_name)
             IN  [k \in DOMAIN linked |->
                    IF k[1] = instance THEN k[2] = role_name ELSE linked[k]]
        ELSE userRoles

\* the UserRole table after update() with "role" in validated_data: the
\* link is created, or re-activated when it exists and is inactive
UserSerializer_update(instance, role_id) ==
    LET role_name == RoleNameOf(role_id)
    IN  IF role_name # None /\ ActiveRoleNamed(role_name) # None
        THEN [UserRole_get_or_create(instance, role_name)
                EXCEPT ![<<instance, role_name>>] = TRUE]
        ELSE userRoles

\* the request carries no role field (required=False)
NoRoleField == -1

\* POST /api/users/ with role r (4, the model's default, without the field)
CreateUser(u, r) ==
    /\ Idle
    /\ u \notin DOMAIN userRole
    /\ LET role_id == IF r = NoRoleField THEN 4 ELSE r
       IN  /\ userRole' = [x \in DOMAIN userRole \cup {u} |->
                              IF x = u THEN role_id ELSE userRole[x]]
           /\ userRoles' = UserSerializer_create(u, role_id)
    /\ endpoint' = [kind |-> "UserSerializer.create", args |-> <<u, r>>]
    /\ UNCHANGED <<permissions, roles, rolePerms, incoming, response>>

\* PATCH /api/users/<id>/ with role v, or without the field
UpdateUser(u, v) ==
    /\ Idle
    /\ u \in DOMAIN userRole
    /\ IF v = NoRoleField
       THEN UNCHANGED <<userRole, userRoles>>
       ELSE /\ userRole' = [userRole EXCEPT ![u] = v]
            /\ userRoles' = UserSerializer_update(u, v)
    /\ endpoint' = [kind |-> "UserSerializer.update", args |-> <<u, v>>]
    /\ UNCHANGED <<permissions, roles, rolePerms, incoming, response>>

\* the values of the role field the API is sent
RoleFieldValues == {NoRoleField, 0, 3, 4}

\* One user exists; the Auditor and Clerk roles exist and are active.
AdminInit ==
    /\ permissions = {"view_transactions"}
    /\ roles = [r \in ManagedRoles |-> TRUE]
    /\ rolePerms = {}
    /\ userRoles = <<>>
    /\ userRole = [u \in ManagedUsers |-> 4]
    /\ endpoint = NoEndpoint
    /\ incoming = NoRequest
    /\ response = NoResponse

AdminNext ==
    \/ \E r \in ManagedRoles, a \in BOOLEAN : SetRoleActive(r, a)
    \/ \E r \in ManagedRoles : GrantPermission(r, "view_transactions")
    \/ \E r \in ManagedRoles : RevokePermission(r, "view_transactions")
    \/ \E u \in Users, r \in ManagedRoles, a \in BOOLEAN : SetUserRoleActive(u, r, a)
    \/ \E u \in Users, r \in RoleFieldValues : CreateUser(u, r)
    \/ \E u \in Users, v \in RoleFieldValues : UpdateUser(u, v)
    \/ SendResponse

AdminSpec == AdminInit /\ [][AdminNext]_vars

\* the Role named by the fixed table for role value v exists and is active
NamedRoleActive(v) ==
    /\ v \in DOMAIN ROLE_NAME_BY_ID
    /\ ROLE_NAME_BY_ID[v] \in DOMAIN roles
    /\ roles[ROLE_NAME_BY_ID[v]]

(***************************************************************************)
(* C18: creating a user through the API with legacy role r in 1..4, the    *)
(* Role named by the fixed table existing and active, leaves an active     *)
(* UserRole from the new user to that role, so that the user passes the    *)
(* checks for the role's permissions at once (a new role=3 user can list   *)
(* transactions).  Updating a user's role field leaves an active UserRole  *)
(* for the new role as well, re-activating an inactive link that exists    *)
(* and adding no second row for the pair.                                  *)
(***************************************************************************)
C18_UserRoleFromLegacyField ==
    [][\A u \in Users, v \in DOMAIN ROLE_NAME_BY_ID :
        LET name == ROLE_NAME_BY_ID[v]
            linked == /\ ActiveLink(u, name)'
                      /\ \A c \in permissions : <<name, c>> \in rolePerms =>
                            /\ _user_has_permission(u, c)' = Return(TRUE)
                            /\ has_permission(c, Get(u, "/api/transactions/"))'.handlerCalls = 1
        IN  /\ (/\ Idle
                /\ endpoint'.kind = "UserSerializer.create"
                /\ endpoint'.args[1] = u
                /\ userRole'[u] = v
                /\ NamedRoleActive(v)) => linked
            /\ (/\ Idle
                /\ endpoint' = [kind |-> "UserSerializer.update", args |-> <<u, v>>]
                /\ NamedRoleActive(v)) =>
                    /\ linked
                    /\ DOMAIN userRoles' = DOMAIN userRoles \cup {<<u, name>>}
                    /\ \A k \in DOMAIN userRoles \ {<<u, name>>} :
                            userRoles'[k] = userRoles[k]
      ]_vars

\* a user was created with role=3 while Auditor is active and grants
\* view_transactions: the user is linked and passes the check
C18_Witness ==
    /\ endpoint = [kind |-> "UserSerializer.create", args |-> <<"u2", 3>>]
    /\ roles["Auditor"]
    /\ <<"Auditor", "view_transactions">> \in rolePerms
    /\ ActiveLink("u2", "Auditor")
    /\ _user_has_permission("u2", "view_transactions") = Return(TRUE)

\* a user's role was updated to 4 and the Clerk link is active next to
\* the inactive link of the former role
C18_WitnessUpdate ==
    /\ endpoint = [kind |-> "UserSerializer.update", args |-> <<"u2", 4>>]
    /\ ActiveLink("u2", "Clerk")
    /\ <<"u2", "Auditor">> \in DOMAIN userRoles
    /\ ~userRoles[<<"u2", "Auditor">>]

(***************************************************************************)
(* SeedSpec: setup_rbac run, any number of times, on stores that rows were *)
(* written to by hand before and between the runs: catalog and foreign     *)
(* permissions, a seeded role and a role outside the catalog, grants the   *)
(* catalog asks for and grants it does not, and user links.                *)
(***************************************************************************)
\* view_transactions is desired for Clerk, backup_data is not; the other
\* two are outside the catalog
SeedCodenames == {"view_transactions", "backup_data", "reports_view", "archive_data"}

\* Clerk is seeded, Guest is outside the catalog
SeedRoles == {"Clerk", "Guest"}

SeedNext ==
    \/ \E c \in SeedCodenames : CreatePermission(c)
    \/ \E r \in SeedRoles, a \in BOOLEAN : CreateRole(r, a)
    \/ \E r \in SeedRoles, c \in SeedCodenames : GrantPermission(r, c)
    \/ \E r \in SeedRoles, c \in SeedCodenames : RevokePermission(r, c)
    \/ \E u \in ManagedUsers, r \in SeedRoles : AssignRole(u, r, TRUE)
    \/ SetupRbac

SeedSpec == Init /\ [][SeedNext]_vars

\* the rows of the three tables setup_rbac writes
Rows(st) == <<st.permissions, st.roles, st.rolePerms>>

(***************************************************************************)
(* C19: seeding is idempotent.  From any state, a run of setup_rbac        *)
(* straight after a run leaves the Permission, Role and RolePermission     *)
(* rows exactly as the first run left them.                                *)
(***************************************************************************)
C19_SeedingIdempotent ==
    [][SetupRbac =>
        LET first == Store(permissions', roles', rolePerms')
        IN  Rows(setup_rbac(first)) = Rows(first)
      ]_vars

\* setup_rbac has run on a store that held hand-made rows: the catalog is
\* in place next to a foreign permission and a foreign role's grant, and a
\* further run changes nothing
C19_Witness ==
    /\ CatalogCodenames \subseteq permissions
    /\ DesiredGrants \subseteq rolePerms
    /\ <<"Guest", "archive_data">> \in rolePerms
    /\ "Clerk" \in DOMAIN roles /\ ~roles["Clerk"]
    /\ Rows(setup_rbac(Store(permissions, roles, rolePerms))) = <<permissions, roles, rolePerms>>

\* setup_rbac has stopped at the permission whose name a foreign row has:
\* the permissions before it are created, no role is, and a further run
\* stops at the same place
C19_WitnessRaised ==
    /\ "reports_view" \in permissions
    /\ "view_settings" \in permissions
    /\ "view_reports" \notin permissions
    /\ setup_rbac(Store(permissions, roles, rolePerms)).raised
    /\ Rows(setup_rbac(Store(permissions, roles, rolePerms))) = <<permissions, roles, rolePerms>>

\* the roles of the catalog
CatalogRoles == {roles_data[i].name : i \in 1..Len(roles_data)}

(***************************************************************************)
(* C20: the only rows setup_rbac deletes are RolePermission rows of a      *)
(* seeded role whose permission is not in that role's desired set.  It     *)
(* deletes no Permission row and no Role row, no RolePermission row of     *)
(* the desired set, and leaves alone the RolePermission rows of roles      *)
(* outside its catalog and every UserRole row.                             *)
(***************************************************************************)
C20_DeletesOnlyExtraGrants ==
    [][SetupRbac =>
        /\ permissions \subseteq permissions'
        /\ \A r \in DOMAIN roles : r \in DOMAIN roles' /\ roles'[r] = roles[r]
        /\ \A rp \in rolePerms \ rolePerms' :
                /\ rp[1] \in CatalogRoles
                /\ rp[2] \notin SeededPermissions(rp[1])
        /\ {rp \in rolePerms' : rp[1] \notin CatalogRoles}
                = {rp \in rolePerms : rp[1] \notin CatalogRoles}
        /\ userRoles' = userRoles
      ]_vars

\* setup_rbac has run on a store where Clerk held backup_data and a
\* foreign permission, Guest held grants and the user was linked: Clerk's
\* extra rows are gone, every other row is there
C20_Witness ==
    /\ DesiredGrants \subseteq rolePerms
    /\ {"backup_data", "archive_data"} \subseteq permissions
    /\ {rp \in rolePerms : rp[1] = "Clerk"} = {"Clerk"} \X SeededPermissions("Clerk")
    /\ {<<"Guest", "backup_data">>, <<"Guest", "archive_data">>} \subseteq rolePerms
    /\ "Guest" \in DOMAIN roles /\ ~roles["Guest"]
    /\ ActiveLink("u1", "Guest")

(***************************************************************************)
(* C21: reconciliation.  After setup_rbac completes, from any prior state  *)
(* (a seeded role holding extra grants or lacking some included), the      *)
(* codenames granted to each of Chief Officer, Accountant Officer, Auditor *)
(* and Clerk are exactly the role's desired set of the catalog, and Chief  *)
(* Officer holds every catalog permission.                                 *)
(***************************************************************************)
C21_Reconciled ==
    [][(SetupRbac /\ ~setup_rbac(Store(permissions, roles, rolePerms)).raised) =>
        /\ \A role \in CatalogRoles :
                /\ role \in DOMAIN roles'
                /\ CodenamesOfRoles({role})' = SeededPermissions(role)
        /\ CodenamesOfRoles({"Chief Officer"})' = CatalogCodenames
      ]_vars

\* setup_rbac has completed on a store holding a foreign permission and an
\* inactive Clerk: every seeded role holds its desired set and nothing else
C21_Witness ==
    /\ "archive_data" \in permissions
    /\ "Clerk" \in DOMAIN roles /\ ~roles["Clerk"]
    /\ \A role \in CatalogRoles :
            role \in DOMAIN roles /\ CodenamesOfRoles({role}) = SeededPermissions(role)
    /\ CodenamesOfRoles({"Chief Officer"}) = CatalogCodenames
    /\ ~setup_rbac(Store(permissions, roles, rolePerms)).raised

(***************************************************************************)
(* sync_user_roles: Command.handle.                                        *)
(***************************************************************************)
\* the loop body leaving an existing link as it finds it
SyncUserGetOrCreate(urs, user) ==
    LET role_name == RoleNameOf(userRole[user])
        key == <<user, role_name>>
    IN  IF role_name = None \/ role_name \notin DOMAIN roles \/ key \in DOMAIN urs
        THEN urs
        ELSE [k \in DOMAIN urs \cup {key} |-> IF k = key THEN TRUE ELSE urs[k]]

\* the body of `for user in User.objects.all()` on the UserRole table urs:
\* Role.objects.get(name=role_name) does not look at is_active
SyncUser(urs, user) ==
    LET role_name == RoleNameOf(userRole[user])
        key == <<user, role_name>>
    IN  IF role_name = None THEN urs
        ELSE IF role_name \notin DOMAIN roles THEN urs
        ELSE IF key \notin DOMAIN urs
        THEN [k \in DOMAIN urs \cup {key} |-> IF k = key THEN TRUE ELSE urs[k]]
        ELSE IF ~urs[key] THEN [urs EXCEPT ![key] = TRUE]
        ELSE urs

RECURSIVE SyncUsersFrom(_, _)
SyncUsersFrom(urs, users) ==
    IF users = {} THEN urs
    ELSE LET user == CHOOSE u \in users : TRUE
         IN  SyncUsersFrom(SyncUser(urs, user), users \ {user})

\* the UserRole table after the command
sync_user_roles(urs) == SyncUsersFrom(urs, DOMAIN userRole)

\* python manage.py sync_user_roles
SyncUserRoles ==
    /\ Idle
    /\ userRoles' = sync_user_roles(userRoles)
    /\ endpoint' = [kind |-> "sync_user_roles", args |-> <<>>]
    /\ UNCHANGED <<permissions, roles, rolePerms, userRole, incoming, response>>

(***************************************************************************)
(* create_chief_officer: Command.handle.                                   *)
(***************************************************************************)
\* perms, as (codename, name); the names differ from those of setup_rbac
perms == <<
    [codename |-> "view_users", name |-> "View Users"],
    [codename |-> "add_users", name |-> "Add Users"],
    [codename |-> "edit_users", name |-> "Edit Users"],
    [codename |-> "delete_users", name |-> "Delete Users"],
    [codename |-> "view_transactions", name |-> "View Transactions"],
    [codename |-> "add_transactions", name |-> "Add Transactions"],
    [codename |-> "edit_transactions", name |-> "Edit Transactions"],
    [codename |-> "delete_transactions", name |-> "Delete Transactions"],
    [codename |-> "view_banks", name |-> "View Banks"],
    [codename |-> "add_banks", name |-> "Add Banks"],
    [codename |-> "edit_banks", name |-> "Edit Banks"],
    [codename |-> "delete_banks", name |-> "Delete Banks"],
    [codename |-> "view_contractors", name |-> "View Contractors"],
    [codename |-> "add_contractors", name |-> "Add Contractors"],
    [codename |-> "edit_contractors", name |-> "Edit Contractors"],
    [codename |-> "delete_contractors", name |-> "Delete Contractors"],
    [codename |-> "view_settings", name |-> "View Settings"],
    [codename |-> "edit_settings", name |-> "Edit Settings"] >>

ChiefCodenames == {perms[i].codename : i \in 1..Len(perms)}

\* UserRole.objects.get_or_create(user=user, role=role, defaults={'is_active': True})
ChiefOfficerLink(username) == UserRole_get_or_create(username, "Chief Officer")

\* python manage.py create_chief_officer --username <username>
CreateChiefOfficer(username) ==
    /\ Idle
    /\ roles' = [x \in DOMAIN roles \cup {"Chief Officer"} |->
                    IF x = "Chief Officer" THEN TRUE ELSE roles[x]]
    /\ permissions' = permissions \cup ChiefCodenames
    /\ rolePerms' = rolePerms \cup {<<"Chief Officer", c>> : c \in ChiefCodenames}
    /\ userRole' = [x \in DOMAIN userRole \cup {username} |->
                        IF x = username THEN 1 ELSE userRole[x]]
    /\ userRoles' = ChiefOfficerLink(username)
    /\ endpoint' = [kind |-> "create_chief_officer", args |-> <<username>>]
    /\ UNCHANGED <<incoming, response>>

(***************************************************************************)
(* ProvisionSpec: the three commands and the user API in any order, on a   *)
(* store that starts empty but for one user; links and roles are switched  *)
(* off and on in between.                                                  *)
(***************************************************************************)
\* "u2" exists from the start, "u1" is created by the API or the command
ProvisionInit ==
    /\ permissions = {}
    /\ roles = <<>>
    /\ rolePerms = {}
    /\ userRoles = <<>>
    /\ userRole = [u \in {"u2"} |-> 4]
    /\ endpoint = NoEndpoint
    /\ incoming = NoRequest
    /\ response = NoResponse

ProvisionRoles == {"Chief Officer", "Clerk"}

ProvisionNext ==
    \/ SetupRbac
    \/ SyncUserRoles
    \/ \E u \in ManagedUsers : CreateChiefOfficer(u)
    \/ \E u \in ManagedUsers, r \in RoleFieldValues : CreateUser(u, r)
    \/ \E u \in ManagedUsers, v \in RoleFieldValues : UpdateUser(u, v)
    \/ \E r \in ProvisionRoles, a \in BOOLEAN : SetRoleActive(r, a)
    \/ \E u \in Users, r \in ProvisionRoles, a \in BOOLEAN : SetUserRoleActive(u, r, a)
    \/ SendResponse

ProvisionSpec == ProvisionInit /\ [][ProvisionNext]_vars

\* the users whose legacy role field names a Role that exists
Mapped(u) ==
    /\ u \in DOMAIN userRole
    /\ userRole[u] \in DOMAIN ROLE_NAME_BY_ID
    /\ ROLE_NAME_BY_ID[userRole[u]] \in DOMAIN roles

(***************************************************************************)
(* C22: after sync_user_roles, every user whose legacy role field maps     *)
(* (1..4) to an existing Role has the UserRole row for (user, mapped role) *)
(* and the row is active: a missing link is created active, an inactive    *)
(* link is activated, an active one is left as it is; no other row is      *)
(* added or changed, and running the command again changes nothing.        *)
(***************************************************************************)
C22_SyncBackfills ==
    [][(Idle /\ endpoint'.kind = "sync_user_roles") =>
        LET targets == {<<u, ROLE_NAME_BY_ID[userRole[u]]>> : u \in {x \in Users : Mapped(x)}}
        IN  /\ \A k \in targets : k \in DOMAIN userRoles' /\ userRoles'[k]
            /\ DOMAIN userRoles' = DOMAIN userRoles \cup targets
            /\ \A k \in DOMAIN userRoles \ targets : userRoles'[k] = userRoles[k]
            /\ sync_user_roles(userRoles') = userRoles'
      ]_vars

\* the command has run with both users mapped: "u1" is linked to Auditor,
\* "u2" to Clerk, next to an inactive link the command had no reason to touch
C22_Witness ==
    /\ endpoint.kind = "sync_user_roles"
    /\ userRole["u2"] = 4 /\ ActiveLink("u2", "Clerk")
    /\ "u1" \in DOMAIN userRole /\ userRole["u1"] = 3 /\ ActiveLink("u1", "Auditor")
    /\ <<"u1", "Chief Officer">> \in DOMAIN userRoles
    /\ ~userRoles[<<"u1", "Chief Officer">>]

(***************************************************************************)
(* RowSpec: the Permission, RolePermission and UserRole tables as lists of *)
(* rows, so that two rows of one key can be told from one.  In this        *)
(* specification `permissions` lists the codenames of the Permission rows, *)
(* `rolePerms` the <<role, codename>> of the RolePermission rows and       *)
(* `userRoles` the <<user, role>> of the UserRole rows, in insertion       *)
(* order; `endpoint` holds the get_or_create call each of two concurrent   *)
(* workers is in.  setup_rbac, sync_user_roles, create_chief_officer and   *)
(* UserSerializer.create / update write rows to these tables through       *)
(* get_or_create only, and setup_rbac deletes RolePermission rows; a       *)
(* worker is one of them running, and their calls interleave freely.       *)
(* get_or_create is a SELECT and, when it finds no row, an INSERT; the     *)
(* INSERT is refused with IntegrityError when the table's unique key       *)
(* (codename, (role, permission), (user, role)) is already there, and      *)
(* get_or_create then returns the row it finds.                            *)
(***************************************************************************)
\* two operations running at once
Workers == {"w1", "w2"}

Tables == {"Permission", "RolePermission", "UserRole"}

\* keys the operations ask for: a codename of both catalogs and one of
\* setup_rbac alone; a grant both commands make and one setup_rbac alone
\* makes; the link of create_chief_officer and a link of the legacy field
RequestedKeys(table) ==
    CASE table = "Permission" -> {"view_users", "view_reports"}
      [] table = "RolePermission" ->
            {<<"Chief Officer", "view_users">>, <<"Clerk", "view_reports">>}
      [] table = "UserRole" -> {<<"u1", "Chief Officer">>, <<"u1", "Clerk">>}

\* the rows of a table
TableRows(table) ==
    CASE table = "Permission" -> permissions
      [] table = "RolePermission" -> rolePerms
      [] table = "UserRole" -> userRoles

\* the worker's last call: its table and key, and where it stands
NoCall == [table |-> "", key |-> <<>>, pc |-> "none"]

Calls == endpoint.args[1]

\* INSERT without the unique constraint
InsertUnconstrained(rows, key) == [raised |-> FALSE, rows |-> Append(rows, key)]

\* INSERT under the table's unique constraint (unique=True, unique_together)
Insert(rows, key) ==
    IF key \in Elems(rows)
    THEN [raised |-> TRUE, rows |-> rows]
    ELSE [raised |-> FALSE, rows |-> Append(rows, key)]

\* the table of the call written back
WriteTable(table, rows) ==
    /\ permissions' = IF table = "Permission" THEN rows ELSE permissions
    /\ rolePerms' = IF table = "RolePermission" THEN rows ELSE rolePerms
    /\ userRoles' = IF table = "UserRole" THEN rows ELSE userRoles

\* get_or_create, first half: self.get(**kwargs)
GetOrCreateSelect(w, table, key) ==
    /\ Calls[w].pc \in {"none", "found", "created", "refused"}
    /\ endpoint' = [endpoint EXCEPT !.args[1][w] =
            [table |-> table, key |-> key,
             pc |-> IF key \in Elems(TableRows(table)) THEN "found" ELSE "insert"]]
    /\ UNCHANGED <<dbVars, incoming, response>>

\* get_or_create, second half: self.create(**params), and on IntegrityError
\* self.get(**kwargs) again
GetOrCreateInsert(w) ==
    /\ Calls[w].pc = "insert"
    /\ LET call == Calls[w]
           done == Insert(TableRows(call.table), call.key)
       IN  /\ WriteTable(call.table, done.rows)
           /\ endpoint' = [endpoint EXCEPT !.args[1][w].pc =
                                IF done.raised THEN "refused" ELSE "created"]
    /\ UNCHANGED <<roles, userRole, incoming, response>>

\* a list without its i-th row
RemoveAt(rows, i) == SubSeq(rows, 1, i - 1) \o SubSeq(rows, i + 1, Len(rows))

\* setup_rbac's cleanup: rp.delete() of a RolePermission row it has read
DeleteRolePermission(w, i) ==
    /\ Calls[w].pc \in {"none", "found", "created", "refused"}
    /\ i \in 1..Len(rolePerms)
    /\ rolePerms' = RemoveAt(rolePerms, i)
    /\ UNCHANGED <<permissions, roles, userRoles, userRole, reqVars>>

\* the deletes reach the first MaxRows rows of the table
MaxRows == 2

RowInit ==
    /\ permissions = <<>>
    /\ roles = [r \in {"Chief Officer", "Clerk"} |-> TRUE]
    /\ rolePerms = <<>>
    /\ userRoles = <<>>
    /\ userRole = [u \in ManagedUsers |-> 4]
    /\ endpoint = [kind |-> "get_or_create", args |-> <<[w \in Workers |-> NoCall]>>]
    /\ incoming = NoRequest
    /\ response = NoResponse

RowNext ==
    \/ \E w \in Workers, table \in Tables :
        \E key \in RequestedKeys(table) : GetOrCreateSelect(w, table, key)
    \/ \E w \in Workers : GetOrCreateInsert(w)
    \/ \E w \in Workers, i \in 1..MaxRows : DeleteRolePermission(w, i)

RowSpec == RowInit /\ [][RowNext]_vars

(***************************************************************************)
(* C23: in every state reached by any sequence and interleaving of         *)
(* setup_rbac, sync_user_roles, create_chief_officer and user create /     *)
(* update, there is at most one RolePermission row per (role, permission), *)
(* at most one UserRole row per (user, role) and at most one Permission    *)
(* row per codename.                                                       *)
(***************************************************************************)
C23_RowsUnique ==
    /\ NoDuplicates(rolePerms)
    /\ NoDuplicates(userRoles)
    /\ NoDuplicates(permissions)

\* both workers found no UserRole for ("u1", "Chief Officer") and went on
\* to insert it: one INSERT made the row, the other was refused, and the
\* table holds the row once
C23_Witness ==
    /\ Calls["w1"].table = "UserRole" /\ Calls["w1"].pc = "created"
    /\ Calls["w1"].key = <<"u1", "Chief Officer">>
    /\ Calls["w2"].table = "UserRole" /\ Calls["w2"].pc = "refused"
    /\ Calls["w2"].key = <<"u1", "Chief Officer">>
    /\ Cardinality({i \in 1..Len(userRoles) : userRoles[i] = <<"u1", "Chief Officer">>}) = 1

(***************************************************************************)
(* MeSpec: GET /api/me/permissions/ through the whole pipeline, with or    *)
(* without a session and a token.  MePermissionsView sets no               *)
(* permission_classes, so DEFAULT_PERMISSION_CLASSES (IsAuthenticated)     *)
(* applies before get() is called.                                         *)
(***************************************************************************)
\* the middleware stage, then APIView.dispatch of MePermissionsView
MePermissionsView_dispatch(raw) ==
    LET stage == RBACMiddleware_call(HttpRequest(raw))
    IN  IF stage.denied THEN stage.response
        ELSE IF perform_authentication(raw) = AnonymousUser
        THEN JsonResponse("", "Authentication credentials were not provided.", 401)
        ELSE MePermissionsView_get(DrfRequest(raw))

MePermissionsRequest(session, token) ==
    /\ Idle
    /\ LET raw == [session |-> session, token |-> token,
                   path |-> "/api/me/permissions/", method |-> "GET"]
       IN  /\ endpoint' = [kind |-> "MePermissionsView", args |-> <<>>]
           /\ incoming' = raw
           /\ response' = MePermissionsView_dispatch(raw)
    /\ UNCHANGED dbVars

MeNext ==
    \/ \E c \in Codenames : CreatePermission(c)
    \/ \E r \in ManagedRoles : CreateRole(r, TRUE)
    \/ \E r \in ManagedRoles, c \in Codenames : GrantPermission(r, c)
    \/ \E u \in ManagedUsers, r \in ManagedRoles, a \in BOOLEAN : AssignRole(u, r, a)
    \/ \E session \in Callers, token \in {None} \cup ManagedUsers :
            MePermissionsRequest(session, token)
    \/ SendResponse

MeSpec == Init /\ [][MeNext]_vars

\* the request carries neither a session user nor a token
Unauthenticated ==
    /\ endpoint.kind = "MePermissionsView"
    /\ incoming.session = AnonymousUser
    /\ incoming.token = None

(***************************************************************************)
(* C24: the my-permissions endpoint answers an unauthenticated caller with *)
(* a successful response whose body is {"permissions": []}, not with an    *)
(* authentication error.                                                   *)
(***************************************************************************)
C24_AnonymousGetsEmptyList ==
    Unauthenticated => (response.status = 200 /\ response.permissions = <<>>)

\* what holds instead: the unauthenticated caller is answered 401 and get()
\* is not reached
AnonymousGetsNotAuthenticated ==
    Unauthenticated => response.status = 401

(***************************************************************************)
(* RaceSpec: a permission check one query at a time.  _user_has_permission *)
(* and the middleware's _check_api_permission read the store in several    *)
(* separate queries; between two of them other requests commit changes to  *)
(* RolePermission and UserRole rows, and any query may fail with a         *)
(* database error.  `endpoint` holds the frame of the check in flight:     *)
(*   pc          : the query it is about to issue                          *)
(*   todo        : the roles of the user_roles rows not yet looked at      *)
(*   role        : the role of the current iteration of the middleware     *)
(*   result      : what the check returned                                 *)
(*   heldAtStart : what the check gives on the store as it was when the    *)
(*                 check began; heldAtEnd: on the store as it is when the  *)
(*                 check returns                                           *)
(*   seen        : what the check gives on each store there has been      *)
(*                 since the check began                                   *)
(*   changes     : the changes committed since the check began             *)
(*   failed      : the query that raised a database error, if one did      *)
(* The rows come back in no promised order (no Meta.ordering), so the      *)
(* loop takes the roles in any order.                                      *)
(***************************************************************************)
CheckFns == {"_user_has_permission", "_check_api_permission"}

\* the request both checks are made for: its table entry and the codename
\* of its decorator are view_users
CheckedPath == "/api/users/"

CheckedCodename == "view_users"

\* the check made in one go on the store as it is
Atomic(fn, user) ==
    IF fn = "_user_has_permission"
    THEN _user_has_permission(user, CheckedCodename).ret
    ELSE _check_api_permission(Get(user, CheckedPath)).ret

Frame == endpoint.args[1]

InCheck == endpoint.kind \in CheckFns

InFlight == InCheck /\ Frame.pc \notin {"done", "raised"}

\* return <value>
Returned(frame, value, fn, user) ==
    [frame EXCEPT !.pc = "done", !.result = value, !.heldAtEnd = Atomic(fn, user)]

\* a failed query answered as if the permission did not exist
QueryFailedAsDeny(frame) == [frame EXCEPT !.pc = "done", !.result = FALSE]

\* a query raises an error that no except clause of the check names
QueryFailed(frame) == [frame EXCEPT !.pc = "raised"]

\* one query of _user_has_permission and what follows it up to the next
UserHasPermissionQuery(frame, user, r) ==
    CASE frame.pc = "Permission.get" ->
            IF Permission_get(CheckedCodename) = "DoesNotExist"
            THEN Returned(frame, FALSE, "_user_has_permission", user)
            ELSE [frame EXCEPT !.pc = "UserRole.filter"]
      [] frame.pc = "UserRole.filter" ->
            IF ActiveUserRoles(user) = {}
            THEN Returned(frame, FALSE, "_user_has_permission", user)
            ELSE [frame EXCEPT !.pc = "RolePermission.exists",
                               !.todo = ActiveUserRoles(user)]
      [] frame.pc = "RolePermission.exists" ->
            IF RolePermissionExists(r, CheckedCodename)
            THEN Returned(frame, TRUE, "_user_has_permission", user)
            ELSE IF frame.todo = {r}
            THEN Returned(frame, FALSE, "_user_has_permission", user)
            ELSE [frame EXCEPT !.todo = @ \ {r}]

\* one query of _check_api_permission (and of _role_has_permission, which
\* it calls for each role)
CheckApiPermissionQuery(frame, user, r) ==
    CASE frame.pc = "UserRole.exists" ->
            IF ActiveUserRoles(user) = {}
            THEN Returned(frame, FALSE, "_check_api_permission", user)
            ELSE [frame EXCEPT !.pc = "UserRole.filter"]
      [] frame.pc = "UserRole.filter" ->
            IF ActiveUserRoles(user) = {}
            THEN Returned(frame, FALSE, "_check_api_permission", user)
            ELSE [frame EXCEPT !.pc = "Permission.get",
                               !.todo = ActiveUserRoles(user)]
      [] frame.pc = "Permission.get" ->
            IF Permission_get(CheckedCodename) = "DoesNotExist"
            THEN IF frame.todo = {r}
                 THEN Returned(frame, FALSE, "_check_api_permission", user)
                 ELSE [frame EXCEPT !.todo = @ \ {r}]
            ELSE [frame EXCEPT !.pc = "RolePermission.exists", !.role = r]
      [] frame.pc = "RolePermission.exists" ->
            IF RolePermissionExists(frame.role, CheckedCodename)
            THEN Returned(frame, TRUE, "_check_api_permission", user)
            ELSE IF frame.todo = {frame.role}
            THEN Returned(frame, FALSE, "_check_api_permission", user)
            ELSE [frame EXCEPT !.pc = "Permission.get", !.todo = @ \ {frame.role}]

\* what the caller of the check answers: the handler for True, the denial
\* for False, and nothing of its own for an exception, which leaves the
\* view or the middleware and is answered 500
CheckResponse(fn, frame, request) ==
    IF frame.pc = "raised" THEN ServerError("OperationalError")
    ELSE IF frame.pc # "done" THEN NoResponse
    ELSE IF frame.result THEN view_func(request)
    ELSE IF fn = "_user_has_permission"
    THEN AccessDenied(request, "You do not have permission: " \o CheckedCodename)
    ELSE _access_denied_response(request)

\* the check is entered; nothing is read yet
CheckStart(fn, user) ==
    /\ Idle
    /\ endpoint' = [kind |-> fn, args |-> <<
            [pc |-> IF fn = "_user_has_permission" THEN "Permission.get"
                    ELSE "UserRole.exists",
             todo |-> {}, role |-> None, result |-> FALSE,
             heldAtStart |-> Atomic(fn, user), heldAtEnd |-> FALSE,
             seen |-> {Atomic(fn, user)}, changes |-> 0, failed |-> None]>>]
    /\ incoming' = Get(user, CheckedPath)
    /\ response' = NoResponse
    /\ UNCHANGED dbVars

\* the check issues its next query, which succeeds or fails
CheckQuery(r, fail) ==
    /\ InFlight
    /\ Frame.pc \in {"Permission.get", "RolePermission.exists"} /\ Frame.todo # {}
            => r \in Frame.todo
    /\ LET fn == endpoint.kind
           next == IF fail THEN QueryFailed([Frame EXCEPT !.failed = Frame.pc])
                   ELSE IF fn = "_user_has_permission"
                   THEN UserHasPermissionQuery(Frame, incoming.user, r)
                   ELSE CheckApiPermissionQuery(Frame, incoming.user, r)
       IN  /\ endpoint' = [endpoint EXCEPT !.args = <<next>>]
           /\ response' = CheckResponse(fn, next, incoming)
    /\ UNCHANGED <<dbVars, incoming>>

\* the response is sent
CheckAnswered ==
    /\ InCheck
    /\ Frame.pc \in {"done", "raised"}
    /\ endpoint' = NoEndpoint
    /\ incoming' = NoRequest
    /\ response' = NoResponse
    /\ UNCHANGED dbVars

\* changes another request may commit while the check is in flight
MaxChanges == 2

\* the frame's record of a change, once the rows are written
Committed ==
    /\ InFlight
    /\ Frame.changes < MaxChanges
    /\ UNCHANGED <<permissions, roles, userRole, incoming, response>>
    /\ \E fn \in CheckFns, user \in Users :
        /\ fn = endpoint.kind
        /\ user = incoming.user
        /\ endpoint' = [endpoint EXCEPT
                !.args[1].changes = @ + 1,
                !.args[1].seen = @ \cup {Atomic(fn, user)'}]

\* RolePermission.objects.create(role=r, permission=c), committed meanwhile
CommitGrant(r, c) ==
    /\ c \in permissions
    /\ <<r, c>> \notin rolePerms
    /\ rolePerms' = rolePerms \cup {<<r, c>>}
    /\ UNCHANGED userRoles
    /\ Committed

\* rp.delete(), committed meanwhile
CommitRevoke(r, c) ==
    /\ <<r, c>> \in rolePerms
    /\ rolePerms' = rolePerms \ {<<r, c>>}
    /\ UNCHANGED userRoles
    /\ Committed

\* ur.is_active = active; ur.save(), committed meanwhile
CommitUserRoleActive(u, r, active) ==
    /\ <<u, r>> \in DOMAIN userRoles
    /\ userRoles[<<u, r>>] # active
    /\ userRoles' = [userRoles EXCEPT ![<<u, r>>] = active]
    /\ UNCHANGED rolePerms
    /\ Committed

RaceInit ==
    /\ permissions = {}
    /\ roles = [r \in ManagedRoles |-> TRUE]
    /\ rolePerms = {}
    /\ userRoles = <<>>
    /\ userRole = [u \in Users |-> 4]
    /\ endpoint = NoEndpoint
    /\ incoming = NoRequest
    /\ response = NoResponse

RaceNext ==
    \/ CreatePermission(CheckedCodename)
    \/ \E r \in ManagedRoles : GrantPermission(r, CheckedCodename)
    \/ \E r \in ManagedRoles : RevokePermission(r, CheckedCodename)
    \/ \E u \in ManagedUsers, r \in ManagedRoles, a \in BOOLEAN : AssignRole(u, r, a)
    \/ \E fn \in CheckFns, u \in ManagedUsers : CheckStart(fn, u)
    \/ \E r \in ManagedRoles, fail \in BOOLEAN : CheckQuery(r, fail)
    \/ CheckAnswered
    \/ \E r \in ManagedRoles : CommitGrant(r, CheckedCodename)
    \/ \E r \in ManagedRoles : CommitRevoke(r, CheckedCodename)
    \/ \E u \in ManagedUsers, r \in ManagedRoles, a \in BOOLEAN :
            CommitUserRoleActive(u, r, a)

RaceSpec == RaceInit /\ [][RaceNext]_vars

CheckReturned == InCheck /\ Frame.pc = "done"

(***************************************************************************)
(* C25: a permission check that runs concurrently with committed changes   *)
(* to RolePermission / UserRole rows returns the check's result in the     *)
(* state before the change or in the state after it: never deny when the   *)
(* user holds the permission before and after, never allow when the user   *)
(* holds it in neither.                                                    *)
(***************************************************************************)
C25_CheckSeesBeforeOrAfter ==
    CheckReturned => Frame.result \in {Frame.heldAtStart, Frame.heldAtEnd}

\* what holds instead: with at most one change committed during the check,
\* the check returns the result of the state before it or after it
OneChangeSeesBeforeOrAfter ==
    (CheckReturned /\ Frame.changes <= 1) =>
        Frame.result \in {Frame.heldAtStart, Frame.heldAtEnd}

\* with two changes the check may even return what it gives on none of the
\* stores there have been: this is violated as C25 is
CheckSeesSomeStore ==
    CheckReturned => Frame.result \in Frame.seen

\* with no change committed during the check the queries give what the
\* check gives in one go
NoChangeIsAtomic ==
    (CheckReturned /\ Frame.changes = 0) =>
        (Frame.result = Frame.heldAtStart /\ Frame.result = Frame.heldAtEnd)

(***************************************************************************)
(* C26: a data-store failure during a permission check never fails open.   *)
(* When a query of _user_has_permission or of the middleware check raises  *)
(* an error other than Permission.DoesNotExist, the error leaves the check *)
(* (no further query is issued, no 403 is made of it) and the protected    *)
(* handler is not invoked; the handler runs only after a check in which    *)
(* every query succeeded and which returned True.                          *)
(***************************************************************************)
C26_FailureNeverFailsOpen ==
    [][/\ (InCheck /\ Frame.failed # None) =>
            /\ Frame.pc = "raised"
            /\ response = ServerError("OperationalError")
            /\ response.handlerCalls = 0
            /\ endpoint' = NoEndpoint
       /\ (InCheck /\ response.handlerCalls = 1) =>
            (Frame.failed = None /\ Frame.pc = "done" /\ Frame.result)
      ]_vars

\* the middleware's RolePermission query failed for a user who holds the
\* permission: the request is answered 500 and the handler has not run
C26_Witness ==
    /\ endpoint.kind = "_check_api_permission"
    /\ Frame.failed = "RolePermission.exists"
    /\ Frame.heldAtStart
    /\ response.status = 500
    /\ response.handlerCalls = 0

\* _user_has_permission's first query failed for a user without the
\* permission: the answer is 500, not the 403 of a denial
C26_WitnessNotDenied ==
    /\ endpoint.kind = "_user_has_permission"
    /\ Frame.failed = "Permission.get"
    /\ ~Frame.heldAtStart
    /\ response.status = 500

\* every codename the middleware table can require
TableCodenames ==
    {DictGet(permission_map[i].permissions, m) :
        i \in 1..Len(permission_map), m \in {"GET", "POST", "PUT", "PATCH", "DELETE"}}
      \ {None}

(***************************************************************************)
(* C27: after create_chief_officer completes, from any prior state (an     *)
(* empty store, a store seeded by setup_rbac, a store where the named user *)
(* exists with an inactive Chief Officer link), the named user has an      *)
(* active UserRole to the active Chief Officer role and every codename the *)
(* middleware table can require, view_reports and backup_data included,    *)
(* passes _user_has_permission for that user.                              *)
(***************************************************************************)
C27_ChiefOfficerHoldsAll ==
    endpoint.kind = "create_chief_officer" =>
        LET username == endpoint.args[1]
        IN  /\ "Chief Officer" \in DOMAIN roles /\ roles["Chief Officer"]
            /\ ActiveLink(username, "Chief Officer")
            /\ \A c \in TableCodenames : _user_has_permission(username, c).ret

\* what holds instead: the role is active and granted the eighteen
\* codenames of perms, and the user holds them when the link is active
ChiefOfficerHoldsPerms ==
    endpoint.kind = "create_chief_officer" =>
        LET username == endpoint.args[1]
        IN  /\ "Chief Officer" \in DOMAIN roles /\ roles["Chief Officer"]
            /\ <<username, "Chief Officer">> \in DOMAIN userRoles
            /\ userRole[username] = 1
            /\ ActiveLink(username, "Chief Officer") =>
                    \A c \in ChiefCodenames : _user_has_permission(username, c).ret

(***************************************************************************)
(* DeleteSpec: the requests that delete rows of users, bank accounts,      *)
(* contractors and transactions (destroy and bulk_delete of the four       *)
(* viewsets), by session or by token, while the grants of a role and the   *)
(* user's link to it change.                                               *)
(***************************************************************************)
Deletable == {res \in Resources : res.resource # "settings"}

\* @method_decorator(has_permission(...), name='bulk_delete'): on three of
\* the four viewsets; UserViewSet.bulk_delete has none
BulkDeleteDecorator(res) ==
    IF res.viewset = "UserViewSet" THEN None ELSE "delete_" \o res.resource

DeleteRoutes ==
    {[path |-> res.root \o "1/", method |-> "DELETE",
      view |-> res.viewset \o ".destroy",
      codename |-> "delete_" \o res.resource] : res \in Deletable}
    \cup {[path |-> res.root \o "bulk-delete/", method |-> "POST",
           view |-> res.viewset \o ".bulk_delete",
           codename |-> BulkDeleteDecorator(res)] : res \in Deletable}

\* the codenames of this specification: the four delete permissions and
\* what the table asks of a POST under /api/users/
DeleteCodenames ==
    {"delete_" \o res.resource : res \in Deletable} \cup {"add_users"}

DeleteInit ==
    /\ permissions = DeleteCodenames
    /\ roles = [r \in {"Clerk"} |-> TRUE]
    /\ rolePerms = {}
    /\ userRoles = <<>>
    /\ userRole = [u \in Users |-> 4]
    /\ endpoint = NoEndpoint
    /\ incoming = NoRequest
    /\ response = NoResponse

DeleteNext ==
    \/ \E c \in DeleteCodenames : GrantPermission("Clerk", c)
    \/ \E c \in DeleteCodenames : RevokePermission("Clerk", c)
    \/ \E u \in ManagedUsers, a \in BOOLEAN : AssignRole(u, "Clerk", a)
    \/ \E session \in {AnonymousUser} \cup ManagedUsers, token \in {None} \cup ManagedUsers,
          route \in DeleteRoutes :
            ApiRequest(session, token, route, None)
    \/ SendResponse

DeleteSpec == DeleteInit /\ [][DeleteNext]_vars

\* the resource whose rows the answered request deletes
DeletedResource ==
    (CHOOSE res \in Deletable :
        endpoint.kind \in {res.viewset \o ".destroy", res.viewset \o ".bulk_delete"}).resource

DeleteHandlerRan ==
    /\ endpoint.kind \in {route.view : route \in DeleteRoutes}
    /\ response.handlerCalls = 1

(***************************************************************************)
(* C28: every API operation that deletes rows of a resource requires the   *)
(* resource's delete permission: destroy and bulk-delete of users, bank    *)
(* accounts, contractors and transactions reach their handler only for a   *)
(* caller holding delete_users, delete_banks, delete_contractors or        *)
(* delete_transactions; a caller without delete_users never removes a User *)
(* row through the API.                                                    *)
(***************************************************************************)
C28_DeleteRequiresDeletePermission ==
    DeleteHandlerRan =>
        _user_has_permission(perform_authentication(incoming),
                             "delete_" \o DeletedResource).ret

\* what holds instead: the statement for every delete operation but
\* UserViewSet.bulk_delete
DecoratedDeleteRequiresDeletePermission ==
    (DeleteHandlerRan /\ endpoint.kind # "UserViewSet.bulk_delete") =>
        _user_has_permission(perform_authentication(incoming),
                             "delete_" \o DeletedResource).ret

\* the operations that provision users
ProvisioningKinds ==
    {"UserSerializer.create", "UserSerializer.update",
     "sync_user_roles", "create_chief_officer"}

(***************************************************************************)
(* C29: user provisioning only ever adds grants.  UserSerializer.create,   *)
(* UserSerializer.update (a change of the legacy role field included),     *)
(* sync_user_roles and create_chief_officer delete no UserRole row and set *)
(* none inactive, so for every user every codename that passed             *)
(* _user_has_permission before the operation passes it after: a user      *)
(* whose legacy role is changed from 1 to 4 keeps every Chief Officer      *)
(* permission.                                                             *)
(***************************************************************************)
C29_ProvisioningOnlyAdds ==
    [][(Idle /\ endpoint'.kind \in ProvisioningKinds) =>
        /\ \A k \in DOMAIN userRoles :
                k \in DOMAIN userRoles' /\ (userRoles[k] => userRoles'[k])
        /\ \A u \in Users, c \in CatalogCodenames :
                _user_has_permission(u, c).ret => _user_has_permission(u, c)'.ret
      ]_vars

\* the legacy role of the chief officer "u1" was updated to 4: the user is
\* linked to Clerk as well and still holds delete_users through Chief Officer
C29_Witness ==
    /\ endpoint = [kind |-> "UserSerializer.update", args |-> <<"u1", 4>>]
    /\ userRole["u1"] = 4
    /\ ActiveLink("u1", "Clerk")
    /\ ActiveLink("u1", "Chief Officer")
    /\ <<"Clerk", "delete_users">> \notin rolePerms
    /\ _user_has_permission("u1", "delete_users").ret

(***************************************************************************)
(* Two users side by side.  Both users are given and lose UserRole rows    *)
(* and legacy role values, and either of them sends requests to decorated  *)
(* views, to the pipeline stage and to /api/me/permissions/.               *)
(***************************************************************************)
TwinCodenames == {"view_users", "edit_users"}

TwinPaths == {"/api/users/", "/dashboard/"}

TwinMethods == {"GET", "DELETE"}

\* codenames given to has_any_permission / has_all_permissions
TwinPermissionLists == { <<"view_users">>, <<"edit_users", "view_users">> }

\* role names given to any_role_required
TwinRoleLists == { <<"Auditor">>, <<"Auditor", "Clerk">> }

\* legacy role values: the two managed roles and a role without a Role row
TwinLegacyValues == {1, 3, 4}

TwinInit ==
    /\ permissions = TwinCodenames
    /\ roles = [r \in ManagedRoles |-> TRUE]
    /\ rolePerms = {<<"Auditor", "view_users">>, <<"Clerk", "edit_users">>}
    /\ userRoles = <<>>
    /\ userRole = [u \in Users |-> 4]
    /\ endpoint = NoEndpoint
    /\ incoming = NoRequest
    /\ response = NoResponse

TwinNext ==
    \/ \E u \in Users, r \in ManagedRoles : AssignRole(u, r, TRUE)
    \/ \E u \in Users, r \in ManagedRoles, a \in BOOLEAN : SetUserRoleActive(u, r, a)
    \/ \E u \in Users, v \in TwinLegacyValues : SetLegacyRole(u, v)
    \/ \E u \in Users, p \in TwinPaths, c \in TwinCodenames :
            GuardedByHasPermission(u, p, c)
    \/ \E u \in Users, p \in TwinPaths, cs \in TwinPermissionLists :
            GuardedByHasAnyPermission(u, p, cs)
    \/ \E u \in Users, p \in TwinPaths, cs \in TwinPermissionLists :
            GuardedByHasAllPermissions(u, p, cs)
    \/ \E u \in Users, p \in TwinPaths, r \in ManagedRoles :
            GuardedByRoleRequired(u, p, r)
    \/ \E u \in Users, p \in TwinPaths, rs \in TwinRoleLists :
            GuardedByAnyRoleRequired(u, p, rs)
    \/ \E u \in Users, p \in TwinPaths, m \in TwinMethods : StageRequest(u, p, m)
    \/ \E u \in Users : MePermissions(u)
    \/ SendResponse

TwinSpec == TwinInit /\ [][TwinNext]_vars

\* the response the guard of the request being answered gives to user u
AnswerTo(u) ==
    LET request == [incoming EXCEPT !.user = u] IN
    CASE endpoint.kind = "has_permission" ->
            has_permission(endpoint.args[1], request)
      [] endpoint.kind = "has_any_permission" ->
            has_any_permission(endpoint.args, request)
      [] endpoint.kind = "has_all_permissions" ->
            has_all_permissions(endpoint.args, request)
      [] endpoint.kind = "role_required" ->
            role_required(endpoint.args[1], request)
      [] endpoint.kind = "any_role_required" ->
            any_role_required(endpoint.args, request)
      [] endpoint.kind = "middleware" ->
            IF RBACMiddleware_call(request).denied
            THEN RBACMiddleware_call(request).response ELSE view_func(request)
      [] endpoint.kind = "me_permissions" -> MePermissionsView_get(request)
      [] OTHER -> NoResponse

EnforcementKinds ==
    {"has_permission", "has_any_permission", "has_all_permissions",
     "role_required", "any_role_required", "middleware"}

\* the two users hold the same active UserRole rows
SameActiveUserRoles(a, b) == ActiveUserRoles(a) = ActiveUserRoles(b)

(***************************************************************************)
(* C30: enforcement does not depend on the legacy role field.  While a     *)
(* request is answered, any other user with the same active UserRole rows  *)
(* as the requesting user, whatever the legacy role values of the two,     *)
(* gets the same response from the decorator or the pipeline stage that    *)
(* answered it; the response of /api/me/permissions/ differs between two   *)
(* such users only when neither has an active UserRole row.                *)
(***************************************************************************)
C30_LegacyRoleNotConsulted ==
    \A other \in Users :
        (~Idle /\ incoming.user \in Users /\ SameActiveUserRoles(incoming.user, other)) =>
            /\ response = AnswerTo(incoming.user)
            /\ endpoint.kind \in EnforcementKinds => AnswerTo(other) = response
            /\ (endpoint.kind = "me_permissions" /\ AnswerTo(other) # response) =>
                    ActiveUserRoles(incoming.user) = {} /\ ActiveUserRoles(other) = {}

\* "u1" (legacy role 3, Auditor) and "u2" (legacy role 4, Clerk) are both
\* linked to Clerk only, and @role_required('Auditor') refuses "u1"
C30_Witness ==
    /\ endpoint = [kind |-> "role_required", args |-> <<"Auditor">>]
    /\ incoming.user = "u1"
    /\ userRole["u1"] = 3 /\ userRole["u2"] = 4
    /\ ActiveUserRoles("u1") = {"Clerk"}
    /\ ActiveUserRoles("u2") = {"Clerk"}
    /\ response.status = 403

\* neither user has an active UserRole row and the legacy values differ:
\* /api/me/permissions/ lists edit_users for one and view_users for the other
C30_WitnessMePermissions ==
    /\ endpoint.kind = "me_permissions"
    /\ incoming.user = "u1"
    /\ ActiveUserRoles("u1") = {} /\ ActiveUserRoles("u2") = {}
    /\ userRole["u1"] = 3 /\ userRole["u2"] = 4
    /\ response.permissions = <<"view_users">>
    /\ AnswerTo("u2").permissions = <<"edit_users">>

====
